---- MODULE Spec2Model ----
(***************************************************************************)
(* Model of the financial dashboard script (src/app.js and its older       *)
(* variant src/unnamed/part_000).                                          *)
(*                                                                         *)
(* Numbers.  The script computes in IEEE doubles; the model computes the   *)
(* same expressions exactly, in fixed units:                               *)
(*   - an allocation weight is an integer percentage and a multiple of 5;  *)
(*     a leg weight w/100/n is kept in units of 1/(20*LegDen);             *)
(*   - a rate of return is kept in tenths of a percent (10.5% is 105);     *)
(*   - expectedReturn is kept in units of 1/(200*LegDen) percent;          *)
(*   - variance is kept in units of 1/(400*LegDen^2) percent^2;            *)
(*   - a text written by toFixed(d) is kept as the integer number of       *)
(*     10^-d units it shows.  toFixed rounds the double it is given; when  *)
(*     the exact value lies half way between two texts, the rounding       *)
(*     error of the double decides, so the model allows both texts;        *)
(*   - a projected balance initial * f1 * ... * fk is kept as the list of  *)
(*     its growth factors, each in units of 1/FactorDen.                   *)
(***************************************************************************)
EXTENDS Integers, Sequences, FiniteSets, TLC

(***************************************************************************)
(* Bounds of the model.                                                    *)
(***************************************************************************)
\* how many entries of STOCK_LIST are offered in the stock select
NumStocks == 2
\* how many coins the market-cap list returns at most
NumCoins == 2
\* how many user events (slider input, select change, button click) a run has
MaxEvents == 2
\* how many different random streams Math.random can produce
NumSeeds == 2

\* how long a run lasts, in seconds
MaxTime == 60
\* how many calls of getQuote / getHistory a run has
MaxCalls == 2
\* how many closing prices a price series has at most
MaxCloses == 3
\* the largest closing price, as an exponent of the price base
MaxExponent == 3
\* the longest horizon of the strategy builder, in years
MaxYears == 2

\* slider positions that are modelled (integer percentages)
SliderValues == {0, 5, 60}

(***************************************************************************)
(* Integer helpers.                                                        *)
(***************************************************************************)
Max(a, b) == IF a >= b THEN a ELSE b

Abs(a) == IF a >= 0 THEN a ELSE -a

RECURSIVE GCD(_, _)
GCD(a, b) == IF b = 0 THEN a ELSE GCD(b, a % b)

LCM(a, b) == (a \div GCD(a, b)) * b

RECURSIVE LCMUpTo(_)
LCMUpTo(n) == IF n <= 1 THEN 1 ELSE LCM(LCMUpTo(n - 1), n)

\* common denominator of the even splits w/n for every possible n
LegDen == LCMUpTo(Max(NumStocks, NumCoins))

RECURSIVE IsqrtIter(_, _, _)
IsqrtIter(n, lo, hi) ==
  IF lo >= hi THEN lo
  ELSE LET mid == (lo + hi + 1) \div 2
       IN IF mid * mid <= n THEN IsqrtIter(n, mid, hi)
                            ELSE IsqrtIter(n, lo, mid - 1)

\* floor of the square root (Math.sqrt, exactly)
Isqrt(n) == IsqrtIter(n, 0, 46340)

RECURSIVE SeqSum(_)
SeqSum(s) == IF s = << >> THEN 0 ELSE Head(s) + SeqSum(Tail(s))

(***************************************************************************)
(* Number.prototype.toFixed: the texts num/den can be shown as, in units   *)
(* of 1/scale (scale = 10^digits), for num >= 0 and den > 0.  Exactly half *)
(* way, both neighbours are possible (see the header).                     *)
(***************************************************************************)
ToFixed(num, den, scale) ==
  LET q == (2 * num * scale + den) \div (2 * den)
      tie == (2 * num * scale + den) % (2 * den) = 0
  IN IF tie THEN {q - 1, q} ELSE {q}

(***************************************************************************)
(* Portfolio data (src/app.js, "PORTFOLIO DATA & SLIDERS").                *)
(***************************************************************************)
\* Object.keys(allocations), in insertion order
AssetKeys == <<"stocks", "reits", "bonds", "crypto">>

Assets == {AssetKeys[i] : i \in 1..Len(AssetKeys)}

\* the allocations object as the script creates it (percent)
InitialAllocations == [stocks |-> 40, reits |-> 20, bonds |-> 30, crypto |-> 10]

\* expected return per class, in tenths of a percent (10.5% is 105)
expectedReturns == [stocks |-> 105, reits |-> 80, bonds |-> 35, crypto |-> 450]

\* volatility per class, in percent
volatilities == [stocks |-> 15, reits |-> 12, bonds |-> 5, crypto |-> 75]

\* the symbols of STOCK_LIST, in list order
STOCK_LIST ==
  <<"AAPL", "MSFT", "GOOGL", "AMZN", "META", "TSLA", "NVDA", "BRK.B", "JPM",
    "V", "UNH", "XOM", "PG", "JNJ", "HD", "BAC", "KO", "PEP", "NFLX", "DIS",
    "ADBE", "INTC", "CSCO", "WMT", "NKE", "MCD", "PFE", "T", "ORCL", "CRM",
    "BABA", "TSM", "SHOP", "SQ", "SPY", "QQQ">>

\* the options of the stock select that are modelled: a prefix of STOCK_LIST
StockOptions == SubSeq(STOCK_LIST, 1, NumStocks)

StockSymbols == {StockOptions[i] : i \in 1..Len(StockOptions)}

\* the options populateStockSelect selects by default
DefaultStocks == {"AAPL", "MSFT", "GOOGL", "AMZN", "SPY"} \cap StockSymbols

\* ids of the coins the market-cap list can hold, by rank
COIN_LIST == <<"bitcoin", "ethereum", "tether">>

CoinOptions == SubSeq(COIN_LIST, 1, NumCoins)

CoinIds == {CoinOptions[i] : i \in 1..Len(CoinOptions)}

\* the options populateCryptoSelect selects by default
DefaultCoins == {"bitcoin", "ethereum"}

\* the placeholder options populateCryptoSelect writes into the crypto select
LoadingOption == "Loading top crypto assets"
UnableOption == "Unable to load crypto list right now."

\* the selected options of a select, in document order
SelectedOptions(options, selected) ==
  SelectSeq(options, LAMBDA o : o \in selected)

(***************************************************************************)
(* calculatePortfolioMetrics, the arithmetic (src/app.js 219-240).         *)
(***************************************************************************)
\* one iteration of the inner accumulation: a leg of weight eachWeight that
\* reads the tables of its class.  weight is in units of 1/(20*LegDen).
Leg(asset, instrument, weight) ==
  [asset |-> asset, instrument |-> instrument, weight |-> weight,
   ret |-> expectedReturns[asset], vol |-> volatilities[asset]]

\* a split that gives every selection the whole class weight
ClassLegsUnsplit(asset, w, selections) ==
  LET k == w \div 5
      n == Len(selections)
  IN IF n > 0
     THEN [i \in 1..n |-> Leg(asset, selections[i], k * LegDen)]
     ELSE <<Leg(asset, "", k * LegDen)>>

\* the legs one asset class adds: w/n for each of n selections, or w alone
ClassLegs(asset, w, selections) ==
  LET k == w \div 5
      n == Len(selections)
  IN IF n > 0
     THEN [i \in 1..n |-> Leg(asset, selections[i], k * (LegDen \div n))]
     ELSE <<Leg(asset, "", k * LegDen)>>

\* a loop that reads the stock selections for every class but crypto
SelectionsForEveryClass(asset, stockSelections, cryptoSelections) ==
  IF asset = "crypto" THEN cryptoSelections ELSE stockSelections

\* the selections the loop uses for an asset class
SelectionsFor(asset, stockSelections, cryptoSelections) ==
  IF asset = "crypto" THEN cryptoSelections
  ELSE IF asset = "stocks" THEN stockSelections
  ELSE << >>

RECURSIVE AllLegs(_, _, _, _)
AllLegs(i, alloc, stockSelections, cryptoSelections) ==
  IF i > Len(AssetKeys) THEN << >>
  ELSE ClassLegs(AssetKeys[i], alloc[AssetKeys[i]],
                 SelectionsFor(AssetKeys[i], stockSelections, cryptoSelections))
       \o AllLegs(i + 1, alloc, stockSelections, cryptoSelections)

\* exp += eachWeight * expectedReturns[asset], in units of 1/(200*LegDen) %
LegReturn(leg) == leg.weight * leg.ret

\* a variance that is linear in the weight
LegVarianceLinearWeight(leg) == (leg.weight * leg.vol) * (LegDen * leg.vol)

\* variance += Math.pow(eachWeight * volatilities[asset], 2),
\* in units of 1/(400*LegDen^2) %^2
LegVariance(leg) == (leg.weight * leg.vol) * (leg.weight * leg.vol)

\* the risk-free rate rf = 2.5, in tenths of a percent
RiskFree == 25

\* exp - rf, in units of 1/(200*LegDen) %
Excess(exp) == exp - RiskFree * 20 * LegDen

\* a quotient without the test sigma > 0
SharpeUnguarded(exp, variance) ==
  [num |-> Excess(exp),
   den2 |-> IF variance > 0 THEN variance ELSE LegDen * LegDen]

\* sharpe = sigma > 0 ? (exp - rf) / sigma : 0, for sigma = Math.sqrt(variance):
\* the quotient num / sqrt(den2), num in units of 1/(200*LegDen) % and den2
\* in units of 1/(400*LegDen^2) %^2; 0 is 0 / sqrt(1)
Sharpe(exp, variance) ==
  IF variance > 0 THEN [num |-> Excess(exp), den2 |-> variance]
  ELSE [num |-> 0, den2 |-> 1]

\* the result of the loop and of the two lines after it
Aggregate(alloc, stockSelections, cryptoSelections) ==
  LET legs == AllLegs(1, alloc, stockSelections, cryptoSelections)
      exp == SeqSum([i \in 1..Len(legs) |-> LegReturn(legs[i])])
      variance == SeqSum([i \in 1..Len(legs) |-> LegVariance(legs[i])])
  IN [legs |-> legs, exp |-> exp, variance |-> variance,
      sharpe |-> Sharpe(exp, variance)]

(***************************************************************************)
(* calculatePortfolioMetrics, the texts it writes (src/app.js 242-253).    *)
(***************************************************************************)
\* exp.toFixed(1), in tenths of a percent
ExpTexts(m) == ToFixed(m.exp, 200 * LegDen, 10)

\* sigma.toFixed(1), in tenths of a percent: sigma = sqrt(variance) and
\* 10 * sigma = sqrt(m.variance) / (2 * LegDen)
VolTexts(m) ==
  LET s == Isqrt(m.variance)
      q == (s + LegDen) \div (2 * LegDen)
      tie == s * s = m.variance /\ (s + LegDen) % (2 * LegDen) = 0
  IN IF tie THEN {q - 1, q} ELSE {q}

\* <<floor(t * a / b), (t * a) mod b>> from <<floor(a / b), a mod b>>
TimesSmall(qr, t, b) ==
  <<qr[1] * t + (qr[2] * t) \div b, (qr[2] * t) % b>>

RECURSIVE TimesHundred(_, _, _)
\* <<floor(100^d * a / b), remainder>> from <<floor(a / b), a mod b>>
TimesHundred(qr, d, b) ==
  IF d = 0 THEN qr
  ELSE TimesHundred(TimesSmall(TimesSmall(qr, 10, b), 10, b), d - 1, b)

\* sharpe.toFixed(d) as <<negative, number of 10^-d units>>, for d >= 1.
\* sharpe = num / (10 * sqrt(den2)); both num and den2 are multiples of
\* LegDen, so with x = |num| / LegDen and v = den2 / LegDen:
\* (2 * 10^d * sharpe)^2 = 4 * 100^(d-1) * x^2 * LegDen / v.
SharpeToFixed(sharpe, d) ==
  IF sharpe.num = 0 THEN {<<FALSE, 0>>}
  ELSE LET x == Abs(sharpe.num) \div LegDen
           v == sharpe.den2 \div LegDen
           a == x * x * LegDen
           qr == TimesHundred(TimesSmall(<<a \div v, a % v>>, 4, v), d - 1, v)
           s == Isqrt(qr[1])
           q == (s + 1) \div 2
           tie == qr[2] = 0 /\ s * s = qr[1] /\ s % 2 = 1
       IN {<<sharpe.num < 0, h>> : h \in (IF tie THEN {q - 1, q} ELSE {q})}

\* sharpe.toFixed(2)
SharpeTexts(m) == SharpeToFixed(m.sharpe, 2)

\* units of a growth factor: 1 + x/100 for x in units of 1/(200*LegDen) %
FactorDen == 20000 * LegDen

\* initial * Math.pow(factor, y), kept as the list of its factors
PowValue(initial, factor, y) ==
  [initial |-> initial, factors |-> [i \in 1..y |-> factor]]

\* value * factor
TimesValue(value, factor) ==
  [value EXCEPT !.factors = Append(@, factor)]

\* heroVal: 10000 * Math.pow(1 + exp / 100, 10); the text shows it in whole
\* dollars, the model keeps the product
HeroValue(m) == PowValue(10000, FactorDen + m.exp, 10)

\* the texts one call of calculatePortfolioMetrics can leave in the page
MetricsTexts(m) ==
  {[expected |-> e, volatility |-> v, sharpe |-> sh, hero |-> HeroValue(m)] :
     e \in ExpTexts(m), v \in VolTexts(m), sh \in SharpeTexts(m)}

(***************************************************************************)
(* buildPortfolioCharts (src/app.js 256-479): the data of the charts.      *)
(***************************************************************************)
\* parseFloat of the expected-return text, / 100, as a growth factor
ExpFactor(expText) == (1000 + expText) * 20 * LegDen

\* series = years.map(y => initial * Math.pow(1 + expVal / 100, y))
GrowthSeries(expText) ==
  [i \in 1..11 |-> PowValue(10000, ExpFactor(expText), i - 1)]

\* Math.random(): the i-th draw of the stream a seed gives, in quarters
\* (0, 1/4, 1/2, 3/4)
Random(seed, i) == ((seed + 1) * i + seed) % 4

\* a shock without the factor 0.6
ShockUndamped(volText, draw) == 10 * LegDen * volText * (draw - 2)

\* a shock that does not scale with sigma
ShockUnscaled(volText, draw) == 6 * LegDen * (draw - 2)

\* sigma * 0.6 * (Math.random() * 2 - 1), in units of 1/FactorDen, for the
\* volatility text (tenths of a percent) and a draw in quarters
Shock(volText, draw) == 6 * LegDen * volText * (draw - 2)

\* 1 + expR + shock
StepFactor(expText, volText, draw) ==
  ExpFactor(expText) + Shock(volText, draw)

\* the inner loop: for (t = 1; t <= nYears; t++) { value *= ...; push },
\* for the path p = 1..30.  A path is kept as the factors of its steps: its
\* point at year t is PathPoint(path, t).
McPath(p, seed, expText, volText) ==
  [t \in 1..10 |->
     StepFactor(expText, volText, Random(seed, (p - 1) * 10 + t))]

\* the outer loop: 30 paths, each starting at value = 10000
McPaths(seed, expText, volText) ==
  [p \in 1..30 |-> McPath(p, seed, expText, volText)]

\* path[t] of a path of the Monte-Carlo chart, for the year t = 0..10
PathPoint(path, t) == [initial |-> 10000, factors |-> SubSeq(path, 1, t)]

(***************************************************************************)
(* State.                                                                  *)
(***************************************************************************)
VARIABLES
  allocations,      \* the allocations object: asset class -> percent
  stockSelected,    \* values of the selected options of #stock-select
  cryptoOptions,    \* values of the options of #crypto-select, in order
  cryptoSelected,   \* values of the selected options of #crypto-select
  metricsText,      \* #expected-return, #volatility, #sharpe-ratio, #hero-equity
  lastMetrics,      \* what the last call of calculatePortfolioMetrics computed
  allocationChart,  \* data of the allocation doughnut, << >> before it is built
  growthChart,      \* data of the growth line chart, << >> before it is built
  monteCarloChart,  \* data sets of the Monte-Carlo chart, << >> before
  simulationRun,    \* the simulationRun flag
  simStatus,        \* text of #sim-status
  chartChecked,     \* the checkboxes of .graph-checkboxes: card -> checked
  cardHidden,       \* chart card -> it carries the class "hidden"
  events,           \* number of user events handled so far
  fetches,          \* every call of fetchCryptoList / fetchCryptoData so far
  netRequests,      \* endpoint -> number of requests fetch() has issued
  tickerEl,         \* children of #crypto-ticker, or its text
  marketWidgets,    \* texts of the BTC and gold widgets
  timers,           \* refresh function -> time its interval fires next
  now,              \* seconds since the page was loaded
  cache,            \* Cache: <<kind, symbol>> -> the entry stored, or NoEntry
  cacheCalls,       \* every call of getQuote / getHistory so far
  cacheRequests,    \* Cache: <<kind, symbol>> -> number of external requests
  closes,           \* Statistics Engine: the price series it is given
  stats,            \* Statistics Engine: the statistics it returned
  script,           \* the script file the page has loaded
  uncaught,         \* the functions an exception has escaped from
  newsState,        \* the newsState object
  newsRequest,      \* the last request for news, pending or returned
  newsFeed,         \* content of #news-feed: a text and the article cards
  breakingTicker,   \* headlines of #breaking-news-ticker
  savedStorage,     \* localStorage item "investiq_saved_news"
  savedNewsEl,      \* content of #saved-news
  toggledOdd,       \* urls toggleSaved was called with an odd number of times
  newsInit,         \* initNewsSection() has run
  strategySliders,  \* values of the four sliders of the strategy builder
  strategy,         \* what the last call of recomputeStrategy computed
  weatherCity,      \* weather widget: the value of #city
  weatherStatus,    \* weather widget: the text of #status, in pieces
  weatherHidden,    \* weather widget: result.hidden
  weatherPlace,     \* weather widget: the text of #place
  weatherRows,      \* weather widget: the rows of #rows
  weatherCalls,     \* weather widget: the runs of the click handler that
                    \* wait for a response, with their local variables
  weatherCounts,    \* weather widget: the requests issued to each endpoint
                    \* and the runs that have ended
  weatherEnded      \* weather widget: the answer the last run ended on

portfolioVars ==
  <<allocations, stockSelected, cryptoOptions, cryptoSelected, metricsText,
    lastMetrics, allocationChart, growthChart, monteCarloChart, simulationRun,
    simStatus, chartChecked, cardHidden, events>>

marketVars == <<netRequests, tickerEl, marketWidgets, timers, now>>

cacheVars == <<cache, cacheCalls, cacheRequests>>

engineVars == <<closes, stats>>

\* the state outside the portfolio and market sections of the page
pageVars == <<script, uncaught>>

\* the news section
newsVars ==
  <<newsState, newsRequest, newsFeed, breakingTicker, savedStorage,
    savedNewsEl, toggledOdd, newsInit>>

\* the strategy builder
strategyVars == <<strategySliders, strategy>>

\* the tools of the page beside the portfolio, the market and the news
\* the weather widget
weatherVars ==
  <<weatherCity, weatherStatus, weatherHidden, weatherPlace, weatherRows,
    weatherCalls, weatherCounts, weatherEnded>>

toolVars == <<strategyVars, weatherVars>>

extVars == <<cacheVars, engineVars, pageVars, newsVars, toolVars>>

vars == <<portfolioVars, fetches, marketVars, extVars>>

(***************************************************************************)
(* calculatePortfolioMetrics (src/app.js 206-254) as a step: it reads the  *)
(* allocations and the selected options and rewrites the four texts.       *)
(***************************************************************************)
\* the values the function computes from what it reads
MetricsOf(alloc, stockSel, options, cryptoSel) ==
  Aggregate(alloc, SelectedOptions(StockOptions, stockSel),
            SelectedOptions(options, cryptoSel))

\* what the call read and what it computed
Computed(alloc, stockSel, options, cryptoSel) ==
  [alloc |-> alloc, stockSelected |-> stockSel, cryptoSelected |-> cryptoSel,
   metrics |-> MetricsOf(alloc, stockSel, options, cryptoSel)]

calculatePortfolioMetrics(alloc, stockSel, options, cryptoSel) ==
  /\ lastMetrics' = Computed(alloc, stockSel, options, cryptoSel)
  /\ metricsText' \in MetricsTexts(lastMetrics'.metrics)

\* buildPortfolioCharts as a step: it reads the allocations and parses the
\* texts calculatePortfolioMetrics wrote
buildPortfolioCharts(alloc, texts, seed) ==
  /\ allocationChart' = [i \in 1..Len(AssetKeys) |-> alloc[AssetKeys[i]]]
  /\ growthChart' = GrowthSeries(texts.expected)
  /\ monteCarloChart' = McPaths(seed, texts.expected, texts.volatility)

\* the chart cards of the mapping in updateChartVisibilityFromChecks
ChartCards ==
  {"allocation", "growth", "correlation", "volatility", "risk-return",
   "monte-carlo"}

\* a visibility that follows the checkboxes alone
updateChartVisibilityIgnoringRun(run, checked) ==
  [card \in ChartCards |-> ~checked[card]]

\* updateChartVisibilityFromChecks (src/app.js 485-501): which cards are hidden
updateChartVisibilityFromChecks(run, checked) ==
  [card \in ChartCards |-> ~(run /\ checked[card])]

(***************************************************************************)
(* The handlers the DOMContentLoaded handler installs (src/app.js          *)
(* 1203-1270) and the continuation of populateCryptoSelect.                *)
(***************************************************************************)
\* "input" on a slider: allocations[k] = parseInt(slider.value);
\* updateAllocationDisplays()
SliderInput ==
  \E k \in Assets, value \in SliderValues :
    /\ events < MaxEvents
    /\ events' = events + 1
    /\ allocations' = [allocations EXCEPT ![k] = value]
    /\ calculatePortfolioMetrics(allocations', stockSelected, cryptoOptions,
                                 cryptoSelected)
    /\ UNCHANGED <<extVars, stockSelected, cryptoOptions, cryptoSelected,
                   allocationChart, growthChart, monteCarloChart,
                   simulationRun, simStatus, chartChecked, cardHidden,
                   fetches, marketVars>>

\* "change" on #stock-select: the user has changed the selected options
StockSelectChange ==
  \E selected \in SUBSET StockSymbols :
    /\ events < MaxEvents
    /\ selected # stockSelected
    /\ events' = events + 1
    /\ stockSelected' = selected
    /\ calculatePortfolioMetrics(allocations, selected, cryptoOptions,
                                 cryptoSelected)
    /\ UNCHANGED <<extVars, allocations, cryptoOptions, cryptoSelected,
                   allocationChart, growthChart, monteCarloChart,
                   simulationRun, simStatus, chartChecked, cardHidden,
                   fetches, marketVars>>

\* "change" on #crypto-select
CryptoSelectChange ==
  \E selected \in SUBSET {cryptoOptions[i] : i \in 1..Len(cryptoOptions)} :
    /\ events < MaxEvents
    /\ selected # cryptoSelected
    /\ events' = events + 1
    /\ cryptoSelected' = selected
    /\ calculatePortfolioMetrics(allocations, stockSelected, cryptoOptions,
                                 selected)
    /\ UNCHANGED <<extVars, allocations, stockSelected, cryptoOptions,
                   allocationChart, growthChart, monteCarloChart,
                   simulationRun, simStatus, chartChecked, cardHidden,
                   fetches, marketVars>>

\* "click" on #run-sim-btn
RunSimClick ==
  \E seed \in 0..(NumSeeds - 1) :
    /\ events < MaxEvents
    /\ events' = events + 1
    /\ simulationRun' = TRUE
    /\ calculatePortfolioMetrics(allocations, stockSelected, cryptoOptions,
                                 cryptoSelected)
    /\ buildPortfolioCharts(allocations, metricsText', seed)
    /\ cardHidden' = updateChartVisibilityFromChecks(TRUE, chartChecked)
    /\ simStatus' = "Simulation up to date - charts refreshed."
    /\ UNCHANGED <<extVars, allocations, stockSelected, cryptoOptions, cryptoSelected,
                   chartChecked, fetches, marketVars>>

\* "change" on a checkbox of .graph-checkboxes
CheckboxChange ==
  \E card \in ChartCards :
    /\ events < MaxEvents
    /\ events' = events + 1
    /\ chartChecked' = [chartChecked EXCEPT ![card] = ~@]
    /\ cardHidden' = updateChartVisibilityFromChecks(simulationRun, chartChecked')
    /\ UNCHANGED <<extVars, allocations, stockSelected, cryptoOptions, cryptoSelected,
                   metricsText, lastMetrics, allocationChart, growthChart,
                   monteCarloChart, simulationRun, simStatus, fetches,
                   marketVars>>

(***************************************************************************)
(* Market data (src/app.js 612-722): fetchCryptoData, fetchCryptoList and  *)
(* their callers.  A call is recorded in fetches when it is made and is    *)
(* pending until its response, or the failure of its request, arrives.     *)
(***************************************************************************)
\* the two endpoints: coins/markets and simple/price
Endpoints == {"coins/markets", "simple/price"}

\* the ids the simple/price request asks for
Proxies == <<"bitcoin", "pax-gold">>

\* a value that a call has not returned yet
Pending == [shape |-> "pending", items |-> << >>]

\* what fetchCryptoList can return: [] after a failure (network error, HTTP
\* status, invalid JSON), else the parsed body: an array of coins (a prefix
\* of the ranking) or something that is no array of coins
ListReturns ==
  {[shape |-> "array", items |-> SubSeq(CoinOptions, 1, n)] : n \in 0..NumCoins}
  \cup {[shape |-> "object", items |-> << >>]}

\* what fetchCryptoData can return: null after a failure, else the parsed
\* body: an object with an entry for some of the ids asked for
\* (id, and whether its usd_24h_change is a number, on which toFixed can
\* be called, or something else, such as a string)
PriceEntries(id) ==
  {<< >>, <<[id |-> id, change |-> "number"]>>,
   <<[id |-> id, change |-> "string"]>>}

PriceReturns ==
  {[shape |-> "null", items |-> << >>]}
  \cup {[shape |-> "object", items |-> btc \o gold] :
          btc \in PriceEntries("bitcoin"), gold \in PriceEntries("pax-gold")}

\* await fetch(url) inside fetchCryptoList / fetchCryptoData: every call
\* issues a request
StartFetch(caller, endpoint) ==
  /\ fetches' = Append(fetches, [caller |-> caller, endpoint |-> endpoint,
                                 calledAt |-> now,
                                 request |-> netRequests[endpoint] + 1,
                                 returned |-> FALSE, value |-> Pending])
  /\ netRequests' = [netRequests EXCEPT ![endpoint] = @ + 1]

\* the call i of caller returns value
Return(i, caller, value) ==
  /\ i \in DOMAIN fetches
  /\ fetches[i].caller = caller
  /\ ~fetches[i].returned
  /\ fetches' = [fetches EXCEPT ![i].returned = TRUE, ![i].value = value]

\* populateCryptoSelect after "await fetchCryptoList()" (src/app.js 1183-1199)
PopulateCryptoSelectResume ==
  \E i \in DOMAIN fetches, list \in ListReturns :
    /\ Return(i, "populateCryptoSelect", list)
    /\ IF list.shape = "array"
       THEN /\ cryptoOptions' = list.items
            /\ cryptoSelected' =
                 DefaultCoins \cap {list.items[j] : j \in 1..Len(list.items)}
       ELSE /\ cryptoOptions' = <<UnableOption>>
            /\ cryptoSelected' = {}
    /\ UNCHANGED <<extVars, allocations, stockSelected, metricsText, lastMetrics,
                   allocationChart, growthChart, monteCarloChart,
                   simulationRun, simStatus, chartChecked, cardHidden, events,
                   marketVars>>

\* buildCryptoTicker after "await fetchCryptoList()" (src/app.js 703-721)
BuildCryptoTickerResume ==
  \E i \in DOMAIN fetches, list \in ListReturns :
    /\ Return(i, "buildCryptoTicker", list)
    /\ IF list.shape = "array"
       THEN tickerEl' = (tickerEl \o list.items) \o (tickerEl \o list.items)
       ELSE tickerEl' = <<"Unable to load live ticker.">>
    /\ UNCHANGED <<extVars, portfolioVars, netRequests, marketWidgets, timers, now>>

\* a buildMarketStats that writes "Unavailable" into both widgets
MarketStatsWidgetsUnavailable(data, widgets) ==
  LET has(k) == \E j \in 1..Len(data.items) : data.items[j].id = k
      bad(k) == \E j \in 1..Len(data.items) :
                  data.items[j].id = k /\ data.items[j].change # "number"
      btc == IF ~has("bitcoin")
             THEN [widgets EXCEPT !.btcValue = "$-", !.btcChange = "Unavailable"]
             ELSE IF bad("bitcoin") THEN [widgets EXCEPT !.btcValue = "$price"]
             ELSE [widgets EXCEPT !.btcValue = "$price",
                                  !.btcChange = "change% (24h)"]
      gold == IF ~has("pax-gold")
              THEN [btc EXCEPT !.goldValue = "$-", !.goldChange = "Unavailable"]
              ELSE IF bad("pax-gold") THEN [btc EXCEPT !.goldValue = "$price"]
              ELSE [btc EXCEPT !.goldValue = "$price",
                               !.goldChange = "change% (24h)"]
  IN IF bad("bitcoin") THEN btc
     ELSE IF bad("pax-gold") THEN gold
     ELSE [gold EXCEPT !.sentiment = "Greed 63 / 100"]

\* the texts buildMarketStats leaves in the widgets (src/app.js 642-695):
\* change.toFixed(2) throws when the change is no number, after the price
\* text of that proxy has been written
MarketStatsWidgets(data, widgets) ==
  LET has(k) == \E j \in 1..Len(data.items) : data.items[j].id = k
      bad(k) == \E j \in 1..Len(data.items) :
                  data.items[j].id = k /\ data.items[j].change # "number"
      btc == IF ~has("bitcoin") THEN [widgets EXCEPT !.btcValue = "API error"]
             ELSE IF bad("bitcoin") THEN [widgets EXCEPT !.btcValue = "$price"]
             ELSE [widgets EXCEPT !.btcValue = "$price",
                                  !.btcChange = "change% (24h)"]
      gold == IF ~has("pax-gold")
              THEN [btc EXCEPT !.goldValue = "$-", !.goldChange = "Unavailable"]
              ELSE IF bad("pax-gold") THEN [btc EXCEPT !.goldValue = "$price"]
              ELSE [btc EXCEPT !.goldValue = "$price",
                               !.goldChange = "change% (24h)"]
  IN IF bad("bitcoin") THEN btc
     ELSE IF bad("pax-gold") THEN gold
     ELSE [gold EXCEPT !.sentiment = "Greed 63 / 100"]

\* buildMarketStats throws: the payload holds a change that is no number
MarketStatsThrows(data) ==
  \E j \in 1..Len(data.items) : data.items[j].change # "number"

\* buildMarketStats after "await fetchCryptoData()" (src/app.js 640-696)
BuildMarketStatsResume ==
  \E i \in DOMAIN fetches, data \in PriceReturns :
    /\ Return(i, "buildMarketStats", data)
    /\ marketWidgets' = MarketStatsWidgets(data, marketWidgets)
    /\ uncaught' = IF MarketStatsThrows(data)
                   THEN uncaught \cup {"buildMarketStats"}
                   ELSE uncaught
    /\ UNCHANGED <<cacheVars, engineVars, newsVars, toolVars, script, portfolioVars,
                   netRequests, tickerEl, timers, now>>

\* period of the two setInterval timers, in seconds
RefreshPeriod == 60

\* setInterval(buildMarketStats, 60000) fires: buildMarketStats up to its await
MarketStatsTick ==
  /\ timers.installed
  /\ now >= timers.buildMarketStats
  /\ timers' = [timers EXCEPT !.buildMarketStats = @ + RefreshPeriod]
  /\ StartFetch("buildMarketStats", "simple/price")
  /\ UNCHANGED <<extVars, portfolioVars, tickerEl, marketWidgets, now>>

\* setInterval(buildCryptoTicker, 60000) fires: buildCryptoTicker up to its
\* await (el.innerHTML = "", then the request)
CryptoTickerTick ==
  /\ timers.installed
  /\ now >= timers.buildCryptoTicker
  /\ timers' = [timers EXCEPT !.buildCryptoTicker = @ + RefreshPeriod]
  /\ tickerEl' = << >>
  /\ StartFetch("buildCryptoTicker", "coins/markets")
  /\ UNCHANGED <<extVars, portfolioVars, marketWidgets, now>>

\* time passes while no timer is due
TimePasses ==
  /\ timers.installed =>
       (now < timers.buildMarketStats /\ now < timers.buildCryptoTicker)
  /\ now + RefreshPeriod <= MaxTime
  /\ now' = now + RefreshPeriod
  /\ UNCHANGED <<extVars, portfolioVars, fetches, netRequests, tickerEl, marketWidgets,
                 timers>>

(***************************************************************************)
(* The Statistics Engine and the Quote/History Cache as the specification  *)
(* describes them (sections 3, 4.1 and 4.2); the script contains neither.  *)
(***************************************************************************)
\* getHistory(symbol): the statistics of a symbol's price history, scaled
\* to percent: <<annualReturn in tenths of a percent, annualVolatility in
\* percent>>; different symbols have different histories
HistoryStats(symbol) ==
  LET i == CHOOSE j \in 1..Len(STOCK_LIST) : STOCK_LIST[j] = symbol
  IN <<80 + i, 20 + i>>

\* the price series that are modelled.  Every close is a power of one price
\* base and is kept as its exponent, so that ln(close[i] / close[i-1]) is
\* closes[i] - closes[i-1] in units of the logarithm of the base.
PriceSeries == UNION {[1..n -> 0..MaxExponent] : n \in 2..MaxCloses}

\* r[i] = ln(close[i] / close[i-1]) for i = 1..n-1
LogReturns(c) == [i \in 1..(Len(c) - 1) |-> c[i + 1] - c[i]]

\* mean = average(r), as the fraction num / den
Mean(r) == [num |-> SeqSum(r), den |-> Len(r)]

\* a variance whose denominator is the number of closes
VarianceOverCloses(r) ==
  LET m == Len(r)
      S == SeqSum(r)
  IN [num |-> SeqSum([i \in 1..m |-> (m * r[i] - S) * (m * r[i] - S)]),
      den |-> m * m * (m + 1)]

\* variance = sum((r[i] - mean)^2) / (n - 1) for the n - 1 returns of n
\* closes, as the fraction num / den: (r[i] - S/m)^2 = (m * r[i] - S)^2 / m^2
Variance(r) ==
  LET m == Len(r)
      S == SeqSum(r)
  IN [num |-> SeqSum([i \in 1..m |-> (m * r[i] - S) * (m * r[i] - S)]),
      den |-> m * m * m]

\* trading days of a year
TradingDays == 252

\* the HistoryStats of a series of closes.  A square root is kept as the
\* fraction under it, a power as its base and exponent:
\* dailyVol = sqrt(variance), annualVol = dailyVol * sqrt(252),
\* annualReturn = (1 + mean)^252 - 1
Statistics(c) ==
  LET r == LogReturns(c)
      v == Variance(r)
  IN [shape |-> "stats",
      meanDailyLogReturn |-> Mean(r),
      dailyVolatility |-> [sqrtOf |-> v],
      annualVolatility |->
        [sqrtOf |-> [num |-> TradingDays * v.num, den |-> v.den]],
      annualReturn |-> [onePlus |-> Mean(r), power |-> TradingDays]]

\* the engine has not been called
NoStats == [shape |-> "none"]

\* the Statistics Engine is applied to the series it was given
ComputeStatistics ==
  /\ closes # << >>
  /\ stats = NoStats
  /\ stats' = Statistics(closes)
  /\ UNCHANGED <<portfolioVars, fetches, marketVars, cacheVars, pageVars,
                 newsVars, toolVars, closes>>

\* the two kinds of cached value
Kinds == {"quote", "history"}

\* the time a cached quote stays valid, in seconds
TTL == 60

\* the time cached history statistics stay valid, in seconds
HistoryTTL == 600

TtlOf(kind) == IF kind = "quote" THEN TTL ELSE HistoryTTL

\* the Cache is keyed by kind and symbol
CacheKeys == Kinds \X StockSymbols

NoEntry == [shape |-> "none"]

\* what getQuote returns after a failed request
Unavailable == [shape |-> "unavailable"]

\* what getHistory returns after a failed request: annualVolatility 0.20
\* and annualReturn 0.08, in hundredths
Fallback == [shape |-> "fallback", annualVolatility |-> 20, annualReturn |-> 8]

\* a Cache that answers every failed request with "unavailable"
FailureValueUnavailable(kind) == Unavailable

\* what a call returns when its request has failed
FailureValue(kind) == IF kind = "quote" THEN Unavailable ELSE Fallback

\* the outcome of a request that failed (network error, malformed payload,
\* missing field)
Failure == [shape |-> "failure"]

\* the quotes the quote endpoint can return
QuotePayloads == {[shape |-> "quote", price |-> p] : p \in {100, 101}}

\* the statistics of the price series the history endpoint can return
HistoryPayloads == {Statistics(c) : c \in {<<0, 1>>, <<0, 2, 1>>}}

\* an entry that is also valid at the moment its TTL has elapsed
CacheValidInclusive(kind, symbol) ==
  /\ cache[<<kind, symbol>>] # NoEntry
  /\ now - cache[<<kind, symbol>>].timestamp <= TtlOf(kind)

\* a cached value is valid only while now - timestamp < TTL
CacheValid(kind, symbol) ==
  /\ cache[<<kind, symbol>>] # NoEntry
  /\ now - cache[<<kind, symbol>>].timestamp < TtlOf(kind)

\* a call of getQuote or getHistory: a hit returns the cached value with no
\* request; a miss or a stale entry issues one request, whose outcome is
\* stored with the time on success and replaced by the failure value on
\* failure
CacheCall(kind, symbol, outcome) ==
  LET key == <<kind, symbol>>
      call == [kind |-> kind, symbol |-> symbol, at |-> now]
  IN /\ Len(cacheCalls) < MaxCalls
     /\ IF CacheValid(kind, symbol)
        THEN /\ cacheCalls' =
                  Append(cacheCalls, [call |-> call, hit |-> TRUE,
                                      failed |-> FALSE,
                                      value |-> cache[key].value])
             /\ UNCHANGED <<cache, cacheRequests>>
        ELSE /\ cacheRequests' = [cacheRequests EXCEPT ![key] = @ + 1]
             /\ IF outcome = Failure
                THEN /\ cache' = cache
                     /\ cacheCalls' =
                          Append(cacheCalls, [call |-> call, hit |-> FALSE,
                                              failed |-> TRUE,
                                              value |-> FailureValue(kind)])
                ELSE /\ cache' = [cache EXCEPT ![key] =
                                    [shape |-> "entry", value |-> outcome,
                                     timestamp |-> now]]
                     /\ cacheCalls' =
                          Append(cacheCalls, [call |-> call, hit |-> FALSE,
                                              failed |-> FALSE,
                                              value |-> outcome])
     /\ UNCHANGED <<portfolioVars, fetches, marketVars, engineVars, pageVars,
                     newsVars, toolVars>>

\* getQuote(symbol)
GetQuote ==
  \E symbol \in StockSymbols, outcome \in {Failure} \cup QuotePayloads :
    CacheCall("quote", symbol, outcome)

\* getHistory(symbol)
GetHistory ==
  \E symbol \in StockSymbols, outcome \in {Failure} \cup HistoryPayloads :
    CacheCall("history", symbol, outcome)

\* the moments at which the clock is looked at: around both TTLs
ClockPoints == {0, 30, 60, 600, 630}

\* time advances between two calls
ClockAdvance ==
  \E t \in ClockPoints :
    /\ t > now
    /\ now' = t
    /\ UNCHANGED <<portfolioVars, fetches, netRequests, tickerEl,
                   marketWidgets, timers, extVars>>

InitCache ==
  /\ cache = [key \in CacheKeys |-> NoEntry]
  /\ cacheCalls = << >>
  /\ cacheRequests = [key \in CacheKeys |-> 0]

InitEngine ==
  /\ closes = << >>
  /\ stats = NoStats

(***************************************************************************)
(* The strategy builder (src/app.js 503-611).  With q = 1 + r, r the       *)
(* monthly rate, a balance is a polynomial of q with integer coefficients  *)
(* plus a multiple of 1 / r: poly[k + 1] is the coefficient of q^k.  Both  *)
(* the closed form and the monthly loop are computed exactly in that form. *)
(***************************************************************************)
\* the positions of the sliders that are modelled: the horizon in years,
\* the risk score (baseReturn 7 to 16), the lump sum, the monthly sum
StrategyInputs ==
  [years : 0..MaxYears, risk : 1..10, initial : {0, 1000},
   monthly : {0, 100}]

\* the coefficient of q^k
Coef(poly, k) == IF k + 1 \in DOMAIN poly THEN poly[k + 1] ELSE 0

\* a polynomial without leading zero coefficients
RECURSIVE Canon(_)
Canon(poly) ==
  IF poly # << >> /\ poly[Len(poly)] = 0
  THEN Canon(SubSeq(poly, 1, Len(poly) - 1))
  ELSE poly

RECURSIVE SumFrom(_, _)
SumFrom(poly, i) ==
  IF i > Len(poly) THEN 0 ELSE poly[i] + SumFrom(poly, i + 1)

\* the first n coefficients, as a sequence
Coefs(poly, n) == IF n <= 0 THEN << >> ELSE SubSeq(poly, 1, n)

\* a balance: a polynomial of q, and the numerator of a term over r
Balance(poly, n, overR) == [poly |-> Canon(Coefs(poly, n)), overR |-> overR]

\* Math.pow(1 + r, n)
PowGrowth(n) ==
  Balance([i \in 1..(n + 1) |-> IF i = n + 1 THEN 1 ELSE 0], n + 1, 0)

\* k * value
Times(k, value) ==
  Balance([i \in DOMAIN value.poly |-> k * value.poly[i]], Len(value.poly),
          k * value.overR)

\* a + b
Plus(a, b) ==
  LET len == IF Len(a.poly) > Len(b.poly) THEN Len(a.poly) ELSE Len(b.poly)
  IN  Balance([i \in 1..len |-> Coef(a.poly, i - 1) + Coef(b.poly, i - 1)],
              len, a.overR + b.overR)

\* the number k
Number(k) == Balance(<<k>>, 1, 0)

\* value / r, for a value that is a polynomial: the quotient by q - 1 and
\* the remainder over r
OverR(value) ==
  Balance([i \in 1..Len(value.poly) |-> SumFrom(value.poly, i + 1)],
          Len(value.poly) - 1, SumFrom(value.poly, 1))

\* value * (1 + r), for a value that is a polynomial
TimesGrowth(value) == Balance(<<0>> \o value.poly, Len(value.poly) + 1, 0)

\* a month of the loop that adds the contribution before the growth
MonthContributionFirst(value, monthly) ==
  TimesGrowth(Plus(value, Number(monthly)))

\* one month of the loop: value *= 1 + r; value += monthly
Month(value, monthly) == Plus(TimesGrowth(value), Number(monthly))

RECURSIVE Months(_, _, _)
Months(value, monthly, m) ==
  IF m = 0
  THEN value
  ELSE CHOOSE after \in {Months(next, monthly, m - 1) :
                           next \in {Month(value, monthly)}} : TRUE

\* the values of the chart: the balance after every year
RECURSIVE YearValues(_, _, _)
YearValues(initial, monthly, years) ==
  IF years = 0
  THEN <<Number(initial)>>
  ELSE LET before == YearValues(initial, monthly, years - 1)
       IN  Append(before, Months(before[Len(before)], monthly, 12))

\* recomputeStrategy: what it computes from the sliders
RecomputeStrategy(sliders) ==
  LET baseReturn == 6 + sliders.risk
      n == sliders.years * 12
      lump == Times(sliders.initial, PowGrowth(n))
      future ==
        IF sliders.monthly > 0
        THEN Plus(lump,
                  OverR(Times(sliders.monthly,
                              Plus(PowGrowth(n), Number(-1)))))
        ELSE lump
      contribTotal == sliders.initial + sliders.monthly * n
  IN  [baseReturn |-> baseReturn,
       r |-> [num |-> baseReturn, den |-> 1200],
       future |-> future,
       contribTotal |-> contribTotal,
       gain |-> Plus(future, Number(-contribTotal)),
       values |-> YearValues(sliders.initial, sliders.monthly, sliders.years)]

\* "input" on a slider of the strategy builder
StrategySliderInput ==
  /\ \E slider \in {"years", "risk", "initial", "monthly"} :
       \E sliders \in StrategyInputs :
         /\ \A other \in {"years", "risk", "initial", "monthly"} \ {slider} :
              sliders[other] = strategySliders[other]
         /\ sliders[slider] # strategySliders[slider]
         /\ strategySliders' = sliders
  /\ strategy' = RecomputeStrategy(strategySliders')
  /\ UNCHANGED <<portfolioVars, fetches, marketVars, cacheVars, engineVars,
                 pageVars, newsVars, weatherVars>>

\* the strategy builder after recomputeStrategy() at page load, for one
\* position of the sliders (the markup sets it)
InitStrategy ==
  /\ strategySliders = [years |-> 1, risk |-> 5, initial |-> 1000,
                        monthly |-> 100]
  /\ strategy = RecomputeStrategy(strategySliders)

(***************************************************************************)
(* The news section (src/app.js 725-1154): newsState, the request that is  *)
(* built from it, the feed, and the saved articles in localStorage; and    *)
(* buildNewsFeed of the older script (src/unnamed/part_000 741-835).       *)
(***************************************************************************)
\* a field of an article: a string (kind and id tell strings apart), the
\* empty string, or undefined
Str(kind, id) == [kind |-> kind, id |-> id]

EmptyString == Str("empty", 0)

Undefined == Str("undefined", 0)

\* newsState.pageSize
NewsPageSize == 6

\* article i of a response: its own url, title, source name and date
Article(i) ==
  [title |-> Str("title", i), url |-> Str("url", i),
   source |-> Str("source", i), publishedAt |-> Str("date", i)]

\* another article under the url of article 1, without a source
Reprint ==
  [title |-> Str("title", 7), url |-> Str("url", 1),
   source |-> Undefined, publishedAt |-> Str("date", 7)]

\* an article that has a url and nothing else
Bare ==
  [title |-> Undefined, url |-> Str("url", 2),
   source |-> Undefined, publishedAt |-> Undefined]

\* a page with fewer articles than the page size
ShortPage == <<Article(1), Reprint, Bare>>

\* a page of pageSize articles
FullPage == [i \in 1..NewsPageSize |-> Article(i)]

\* what fetchNewsPage can return: [] after a failure (network error, HTTP
\* status, invalid JSON, no articles field), else json.articles: an array
\* of articles, or something that is no array (a non-empty string)
NewsReturns ==
  {[shape |-> "array", items |-> page] : page \in {<< >>, ShortPage, FullPage}}
  \cup {[shape |-> "string", items |-> << >>]}

\* articles.length of a returned value is 0
IsEmpty(value) == value.shape = "array" /\ value.items = << >>

\* the three hardcoded articles of buildNewsFeed
SampleArticles ==
  [i \in 1..3 |->
     [title |-> Str("sample title", i), url |-> Str("sample url", i),
      source |-> Str("sample source", i), publishedAt |-> Str("now", i)]]

\* what the user can type into #news-search-input: texts of letters,
\* spaces and double quotes
SearchInputs ==
  {<<" ">>, <<" ", "a", " ">>, <<"a", " ", "\"">>}

RECURSIVE TrimStart(_)
TrimStart(s) ==
  IF s # << >> /\ Head(s) = " " THEN TrimStart(Tail(s)) ELSE s

RECURSIVE TrimEnd(_)
TrimEnd(s) ==
  IF s # << >> /\ s[Len(s)] = " "
  THEN TrimEnd(SubSeq(s, 1, Len(s) - 1))
  ELSE s

\* String.prototype.trim
Trim(s) == TrimEnd(TrimStart(s))

\* encodeURIComponent, piece by piece: letters and digits stay, a space
\* and a double quote are escaped
encodeURIComponent(s) ==
  [i \in 1..Len(s) |->
     CASE s[i] = " " -> "%20"
       [] s[i] = "\"" -> "%22"
       [] OTHER -> s[i]]

\* the values of data-news-category: the six the script knows, and any
\* other
NewsCategories ==
  {"top", "stocks", "crypto", "macro", "fx", "commodities", "other"}

\* the fixed query of a category (the switch of buildNewsUrl), as words,
\* spaces and double quotes
CategoryQuery(category) ==
  CASE category = "stocks" ->
         <<"stocks", " ", "OR", " ", "equity", " ", "OR", " ", "earnings",
           " ", "OR", " ", "\"", "stock", " ", "market", "\"">>
    [] category = "crypto" ->
         <<"bitcoin", " ", "OR", " ", "crypto", " ", "OR", " ", "ethereum",
           " ", "OR", " ", "blockchain">>
    [] category = "macro" ->
         <<"inflation", " ", "OR", " ", "GDP", " ", "OR", " ", "recession",
           " ", "OR", " ", "\"", "central", " ", "bank", "\"", " ", "OR",
           " ", "macroeconomic">>
    [] category = "fx" ->
         <<"forex", " ", "OR", " ", "FX", " ", "OR", " ", "currency", " ",
           "OR", " ", "\"", "exchange", " ", "rate", "\"">>
    [] category = "commodities" ->
         <<"gold", " ", "OR", " ", "oil", " ", "OR", " ", "copper", " ",
           "OR", " ", "commodity", " ", "OR", " ", "commodities">>
    [] OTHER -> <<"markets", " ", "OR", " ", "finance">>

\* a request of /v2/everything for q
Everything(q, state) ==
  [base |-> "everything", q |-> q, category |-> "", language |-> "en",
   sortBy |-> "publishedAt", pageSize |-> state.pageSize,
   page |-> state.page]

\* a request of /v2/top-headlines for business news
TopHeadlines(state) ==
  [base |-> "top-headlines", q |-> << >>, category |-> "business",
   language |-> "en", sortBy |-> "", pageSize |-> state.pageSize,
   page |-> state.page]

\* a buildNewsUrl that looks at the category before the query
BuildNewsUrlCategoryFirst(state) ==
  IF state.category = "top"
  THEN TopHeadlines(state)
  ELSE IF Trim(state.query) # << >>
       THEN Everything(encodeURIComponent(Trim(state.query)), state)
       ELSE Everything(encodeURIComponent(CategoryQuery(state.category)),
                       state)

\* buildNewsUrl: the parts of the url it returns
BuildNewsUrl(state) ==
  IF state.query # << >> /\ Trim(state.query) # << >>
  THEN Everything(encodeURIComponent(Trim(state.query)), state)
  ELSE IF state.category = "top"
       THEN TopHeadlines(state)
       ELSE Everything(encodeURIComponent(CategoryQuery(state.category)),
                       state)

\* newsState as the script declares it
DeclaredNewsState ==
  [category |-> "top", query |-> << >>, page |-> 1,
   pageSize |-> NewsPageSize, loading |-> FALSE, reachedEnd |-> FALSE,
   lastBatch |-> [shape |-> "array", items |-> << >>]]

\* no request for news has been made
NoRequest ==
  [caller |-> "", url |-> TopHeadlines(DeclaredNewsState), reset |-> FALSE,
   state |-> DeclaredNewsState, returned |-> TRUE, value |-> Pending]

\* the request loadNews makes: the url fetchNewsPage builds, and the
\* newsState it is built from
NewsRequest(state, reset) ==
  [caller |-> "loadNews", url |-> BuildNewsUrl(state), reset |-> reset,
   state |-> state, returned |-> FALSE, value |-> Pending]

\* a key of a saved entry, undefined when the entry has no such key
Field(entry, key) ==
  IF key \in DOMAIN entry THEN entry[key] ELSE Undefined

\* JSON.stringify of the saved array, as the array JSON.parse makes of it:
\* a key whose value is undefined is left out
Stringify(arr) ==
  [shape |-> "json",
   items |-> [i \in 1..Len(arr) |->
                [key \in {k \in DOMAIN arr[i] : arr[i][k] # Undefined} |->
                   arr[i][key]]]]

\* localStorage has no item under the key
NoItem == [shape |-> "null", items |-> << >>]

\* getSavedArticles: the parsed item, [] without an item
getSavedArticles(storage) == storage.items

\* isSaved(url)
isSaved(storage, url) ==
  \E i \in DOMAIN getSavedArticles(storage) :
    Field(getSavedArticles(storage)[i], "url") = url

\* a findIndex that finds nothing
FindIndexMissing(current, url) == 0

\* current.findIndex(a => a.url === url), counted from 1; 0 for -1
FindIndex(current, url) ==
  IF \E i \in DOMAIN current : Field(current[i], "url") = url
  THEN CHOOSE i \in DOMAIN current :
         /\ Field(current[i], "url") = url
         /\ \A j \in 1..(i - 1) : Field(current[j], "url") # url
  ELSE 0

\* the entry toggleSaved pushes for an article
SavedEntry(article) ==
  [title |-> article.title, url |-> article.url,
   source |-> IF article.source = Undefined
              THEN EmptyString
              ELSE article.source,
   publishedAt |-> article.publishedAt]

\* current.splice(idx, 1)
Splice(current, idx) ==
  SubSeq(current, 1, idx - 1) \o SubSeq(current, idx + 1, Len(current))

\* a toggleSaved that drops every entry from the found one on
ToggledTruncating(storage, article) ==
  LET current == getSavedArticles(storage)
      idx == FindIndex(current, article.url)
  IN  Stringify(IF idx = 0
                THEN Append(current, SavedEntry(article))
                ELSE SubSeq(current, 1, idx - 1))

\* toggleSaved: the item it stores
Toggled(storage, article) ==
  LET current == getSavedArticles(storage)
      idx == FindIndex(current, article.url)
  IN  Stringify(IF idx = 0
                THEN Append(current, SavedEntry(article))
                ELSE Splice(current, idx))

NoSavedText == "No saved articles yet. Click * on a headline to save it."

\* renderSavedArticles: the content of #saved-news
RenderSaved(storage) ==
  LET saved == getSavedArticles(storage)
  IN  IF saved = << >>
      THEN [text |-> NoSavedText, items |-> << >>]
      ELSE [text |-> "",
            items |-> [i \in 1..Len(saved) |->
                         [title |-> Field(saved[i], "title"),
                          source |->
                            IF Field(saved[i], "source")
                                 \in {Undefined, EmptyString}
                            THEN Str("Source", 0)
                            ELSE Field(saved[i], "source")]]]

\* the cards renderArticles makes of a page: the star of a card is lit
\* when the article's url is saved
Cards(articles, storage) ==
  [i \in 1..Len(articles) |->
     [article |-> articles[i], saved |-> isSaved(storage, articles[i].url)]]

UnableNewsText == "Unable to load live news right now."

EmptyFeed == [text |-> "", cards |-> << >>]

\* renderBreakingTicker: the first five headlines
BreakingHeadlines(articles) ==
  [i \in 1..(IF Len(articles) < 5 THEN Len(articles) ELSE 5) |->
     articles[i].title]

\* the rest of the page
outsideNews ==
  <<allocations, stockSelected, cryptoOptions, cryptoSelected, metricsText,
    lastMetrics, allocationChart, growthChart, monteCarloChart,
    simulationRun, simStatus, chartChecked, cardHidden, fetches, marketVars,
    cacheVars, engineVars, toolVars, script>>

\* a loadNews that does not look at newsState.loading
LoadNewsUnguarded(state, reset) ==
  LET started ==
        [state EXCEPT !.loading = TRUE,
                      !.page = IF reset THEN 1 ELSE @,
                      !.reachedEnd = IF reset THEN FALSE ELSE @]
  IN  /\ newsState' = started
      /\ newsRequest' = NewsRequest(started, reset)

\* loadNews({reset}) up to its await, called with newsState as a handler
\* has left it
LoadNews(state, reset) ==
  IF state.loading
  THEN /\ newsState' = state
       /\ UNCHANGED newsRequest
  ELSE LET started ==
             [state EXCEPT !.loading = TRUE,
                           !.page = IF reset THEN 1 ELSE @,
                           !.reachedEnd = IF reset THEN FALSE ELSE @]
       IN  /\ newsState' = started
           /\ newsRequest' = NewsRequest(started, reset)

\* click on a tab of the news section
NewsTabClick ==
  /\ newsInit
  /\ events < MaxEvents
  /\ events' = events + 1
  /\ \E category \in NewsCategories :
       LoadNews([newsState EXCEPT !.category = category, !.query = << >>],
                TRUE)
  /\ UNCHANGED <<outsideNews, uncaught, newsFeed, breakingTicker,
                 savedStorage, savedNewsEl, toggledOdd,
                 newsInit>>

\* click on the search button, or Enter in the search input
NewsSearch ==
  /\ newsInit
  /\ events < MaxEvents
  /\ events' = events + 1
  /\ \E input \in SearchInputs :
       LoadNews([newsState EXCEPT !.query = Trim(input), !.page = 1,
                                  !.reachedEnd = FALSE],
                TRUE)
  /\ UNCHANGED <<outsideNews, uncaught, newsFeed, breakingTicker,
                 savedStorage, savedNewsEl, toggledOdd,
                 newsInit>>

\* a scroll handler that does not look at newsState.reachedEnd
NewsScrollPastEnd ==
  /\ newsInit
  /\ events < MaxEvents
  /\ ~newsState.loading
  /\ events' = events + 1
  /\ LoadNews([newsState EXCEPT !.page = @ + 1], FALSE)
  /\ UNCHANGED <<outsideNews, uncaught, newsFeed, breakingTicker,
                 savedStorage, savedNewsEl, toggledOdd,
                 newsInit>>

\* scroll near the bottom of the news page
NewsScroll ==
  /\ newsInit
  /\ events < MaxEvents
  /\ ~newsState.loading
  /\ ~newsState.reachedEnd
  /\ events' = events + 1
  /\ LoadNews([newsState EXCEPT !.page = @ + 1], FALSE)
  /\ UNCHANGED <<outsideNews, uncaught, newsFeed, breakingTicker,
                 savedStorage, savedNewsEl, toggledOdd,
                 newsInit>>

\* the two-minute interval of initNewsSection fires
NewsTimerTick ==
  /\ newsInit
  /\ newsState.category = "top"
  /\ newsState.query = << >>
  /\ LoadNews([newsState EXCEPT !.page = 1, !.reachedEnd = FALSE], TRUE)
  /\ UNCHANGED <<outsideNews, uncaught, newsFeed, breakingTicker,
                 savedStorage, savedNewsEl, toggledOdd,
                 newsInit, events>>

\* loadNews from its await on: fetchNewsPage returns value
LoadNewsResume ==
  /\ newsRequest.caller = "loadNews"
  /\ ~newsRequest.returned
  /\ \E value \in NewsReturns :
       LET state == [newsState EXCEPT !.loading = FALSE]
           append == ~newsRequest.reset /\ state.page > 1
       IN  /\ newsRequest' =
                [newsRequest EXCEPT !.returned = TRUE, !.value = value]
           /\ IF IsEmpty(value)
              THEN /\ newsState' = [state EXCEPT !.reachedEnd = TRUE]
                   /\ newsFeed' =
                        IF state.page = 1
                        THEN [text |-> UnableNewsText, cards |-> << >>]
                        ELSE newsFeed
                   /\ UNCHANGED <<breakingTicker, uncaught>>
              ELSE IF value.shape = "string"
              THEN /\ newsState' = [state EXCEPT !.lastBatch = value]
                   /\ newsFeed' = IF append THEN newsFeed ELSE EmptyFeed
                   /\ uncaught' = uncaught \cup {"loadNews"}
                   /\ UNCHANGED breakingTicker
              ELSE /\ newsState' =
                        [state EXCEPT
                           !.lastBatch = value,
                           !.reachedEnd =
                              IF Len(value.items) < state.pageSize
                              THEN TRUE
                              ELSE @]
                   /\ newsFeed' =
                        IF append
                        THEN [newsFeed EXCEPT
                                !.cards =
                                   @ \o Cards(value.items, savedStorage)]
                        ELSE [text |-> "",
                              cards |-> Cards(value.items, savedStorage)]
                   /\ breakingTicker' =
                        IF state.page = 1
                        THEN BreakingHeadlines(value.items)
                        ELSE breakingTicker
                   /\ UNCHANGED uncaught
  /\ UNCHANGED <<outsideNews, savedStorage, savedNewsEl, toggledOdd,
                 newsInit, events>>

\* click on the star of card i of the feed: toggleSaved(a), then the
\* star's class is toggled
SaveClick ==
  /\ newsInit
  /\ events < MaxEvents
  /\ events' = events + 1
  /\ \E i \in DOMAIN newsFeed.cards :
       /\ savedStorage' = Toggled(savedStorage, newsFeed.cards[i].article)
       /\ newsFeed' = [newsFeed EXCEPT !.cards[i].saved = ~@]
       /\ toggledOdd' =
            LET url == newsFeed.cards[i].article.url
            IN  IF url \in toggledOdd
                THEN toggledOdd \ {url}
                ELSE toggledOdd \cup {url}
  /\ savedNewsEl' = RenderSaved(savedStorage')
  /\ UNCHANGED <<outsideNews, uncaught, newsState, newsRequest,
                 breakingTicker, newsInit>>

\* buildNewsFeed of the older script from its await on: the request for
\* the top headlines returns value; its cards carry no star
BuildNewsFeedResume ==
  /\ newsRequest.caller = "buildNewsFeed"
  /\ ~newsRequest.returned
  /\ \E value \in NewsReturns :
       /\ newsRequest' =
            [newsRequest EXCEPT !.returned = TRUE, !.value = value]
       /\ IF value.shape = "string"
          THEN /\ newsFeed' = EmptyFeed
               /\ uncaught' = uncaught \cup {"buildNewsFeed"}
          ELSE /\ newsFeed' =
                    [text |-> "",
                     cards |-> Cards(IF IsEmpty(value)
                                     THEN SampleArticles
                                     ELSE value.items,
                                     NoItem)]
               /\ UNCHANGED uncaught
  /\ UNCHANGED <<outsideNews, newsState, breakingTicker, savedStorage,
                 savedNewsEl, toggledOdd, newsInit, events>>

\* the news section of a page whose script has not run initNewsSection()
\* (the DOMContentLoaded handler of src/app.js does not call it); the older
\* script has called buildNewsFeed(), whose request is pending
InitNewsDeclared ==
  /\ newsState = DeclaredNewsState
  /\ newsRequest =
       IF script = "part_000"
       THEN [NoRequest EXCEPT !.caller = "buildNewsFeed",
                              !.returned = FALSE]
       ELSE NoRequest
  /\ newsFeed = EmptyFeed
  /\ breakingTicker = << >>
  /\ savedStorage = NoItem
  /\ savedNewsEl = [text |-> "", items |-> << >>]
  /\ toggledOdd = {}
  /\ newsInit = FALSE

\* what an earlier visit can have left in localStorage: no item, or an
\* array toggleSaved has written (no url twice)
PersistedItems ==
  {NoItem,
   Stringify(<<SavedEntry(Reprint)>>),
   Stringify(<<SavedEntry(Bare), SavedEntry(Article(1))>>),
   Stringify(<<SavedEntry(Article(1)), SavedEntry(Article(3))>>)}

\* the news section after initNewsSection(): the saved articles are
\* rendered and the first page of the top headlines is requested
InitNewsSection ==
  /\ savedStorage \in PersistedItems
  /\ savedNewsEl = RenderSaved(savedStorage)
  /\ toggledOdd = {}
  /\ newsState = [DeclaredNewsState EXCEPT !.loading = TRUE]
  /\ newsRequest = NewsRequest(newsState, TRUE)
  /\ newsFeed = EmptyFeed
  /\ breakingTicker = << >>
  /\ newsInit = TRUE

(***************************************************************************)
(* The weather widget (src/unnamed/part_001): the click handler of the     *)
(* search button, which asks the geocoding endpoint for the city and the   *)
(* forecast endpoint for its coordinates, and calcScore.  Numbers are in   *)
(* millionths; the cells of the hourly arrays are in tenths.               *)
(***************************************************************************)
\* one, in millionths
Million == 1000000

\* what the user can type into #city
CityInputs == {<< >>, <<" ">>, <<"a">>, <<" ", "a", " ", "b">>}

\* the texts of #status, in the pieces they are put together from
PleaseEnterText == <<"Please enter a city name.">>

LoadingWeatherText == <<"Loading weather data...">>

NoStatusText == <<"">>

ErrorText(message) == <<"Error: ", message>>

\* a rejected fetch, and a response whose body is the JSON text of body
Rejected == [shape |-> "rejected", message |-> "Failed to fetch"]

Json(body) == [shape |-> "json", body |-> body]

\* the places the geocoding endpoint knows; one lies on the equator
Place(name, latitude, longitude) ==
  [name |-> name, country |-> "country", latitude |-> latitude,
   longitude |-> longitude]

Inland == Place("inland", 60, 11)

Equatorial == Place("equatorial", 0, 100)

\* what the geocoding request can return: a rejection, a body without
\* results, and bodies with none, one and two results
GeoReturns ==
  {Rejected,
   Json([generationtime_ms |-> 1]),
   Json([results |-> << >>]),
   Json([results |-> <<Equatorial>>]),
   Json([results |-> <<Equatorial, Inland>>])}

\* a cell of an hourly array: null, or a number of tenths
Null == << >>

Tenths(n) == <<n>>

\* the number a cell stands for in arithmetic, in tenths: null is 0
ToNumber(cell) == IF cell = Null THEN 0 ELSE cell[1]

\* the 24 hours of the one forecast day
DayHours == 24

\* the hourly object of a forecast: parallel arrays over the hours
Hourly(temperature, wind, rain) ==
  [time |-> [i \in 1..DayHours |-> i - 1],
   temperature_2m |-> [i \in 1..DayHours |-> temperature[i]],
   wind_speed_10m |-> [i \in 1..DayHours |-> wind[i]],
   precipitation |-> [i \in 1..DayHours |-> rain[i]]]

\* a calm day that warms up from 6.6 to 20.4 degrees and passes 15.6
MildDay ==
  Hourly([i \in 1..DayHours |-> Tenths(60 + 6 * i)],
         [i \in 1..DayHours |-> Tenths(0)],
         [i \in 1..DayHours |-> Tenths(0)])

\* a cold day of gale and rain
StormDay ==
  Hourly([i \in 1..DayHours |-> Tenths(-200)],
         [i \in 1..DayHours |-> Tenths(600)],
         [i \in 1..DayHours |-> Tenths(30)])

\* a day with gaps in the data and a wind that rises through the day
GapDay ==
  Hourly([i \in 1..DayHours |-> IF i % 2 = 0 THEN Null ELSE Tenths(150)],
         [i \in 1..DayHours |-> IF i % 3 = 0 THEN Null ELSE Tenths(10 * i)],
         [i \in 1..DayHours |-> IF i < 12 THEN Null ELSE Tenths(i - 12)])

\* what the forecast request can return: a rejection, the error body of
\* the endpoint, an hourly object without its arrays, and three days
ForecastReturns ==
  {Rejected,
   Json([error |-> TRUE, reason |-> "reason"]),
   Json([hourly |-> [units |-> "units"]]),
   Json([hourly |-> MildDay]),
   Json([hourly |-> StormDay]),
   Json([hourly |-> GapDay])}

Min(a, b) == IF a <= b THEN a ELSE b

\* Math.round of a number of millionths
Round(x) == (x + Million \div 2) \div Million

\* a calcScore that does not clamp
calcScoreUnclamped(temp, wind, rain) ==
  Round(100 * Million - Abs(60 * Million - temp) - wind * 2 - rain * 20)

\* calcScore, on numbers in millionths
calcScore(temp, wind, rain) ==
  LET score == 100 * Million - Abs(60 * Million - temp) - wind * 2 - rain * 20
  IN  Max(0, Min(100, Round(score)))

\* the object the handler makes of hour i: Fahrenheit, miles per hour,
\* millimetres (all in millionths) and the score
HourOf(hourly, i) ==
  LET temp == ToNumber(hourly.temperature_2m[i]) * 180000 + 32 * Million
      wind == ToNumber(hourly.wind_speed_10m[i]) * 223694
      rain == ToNumber(hourly.precipitation[i]) * 100000
  IN  [time |-> hourly.time[i], temp |-> temp, wind |-> wind,
       rain |-> hourly.precipitation[i],
       score |-> calcScore(temp, wind, rain)]

\* hours.slice(6, 22)
DaySlice(hours) ==
  IF Len(hours) <= 6 THEN << >> ELSE SubSeq(hours, 7, Min(22, Len(hours)))

\* Math.max(...scores); of no score it is -Infinity, which is below every
\* score, as -1 is
RECURSIVE TopScore(_)
TopScore(dayHours) ==
  IF dayHours = << >>
  THEN -1
  ELSE Max(dayHours[1].score, TopScore(Tail(dayHours)))

\* the score cell's class
Level(score) ==
  IF score > 75 THEN "high" ELSE IF score > 50 THEN "medium" ELSE "low"

\* the rows the handler writes into #rows; the first row is highlighted
\* when no row is
WeatherRows(hourly) ==
  LET hours == [i \in 1..Len(hourly.time) |-> HourOf(hourly, i)]
      dayHours == DaySlice(hours)
      topScore == TopScore(dayHours)
      rows ==
        [i \in 1..Len(dayHours) |->
           [time |-> dayHours[i].time, score |-> dayHours[i].score,
            level |-> Level(dayHours[i].score),
            highlight |-> dayHours[i].score = topScore]]
  IN  IF rows # << >> /\ \A i \in DOMAIN rows : ~rows[i].highlight
      THEN [rows EXCEPT ![1].highlight = TRUE]
      ELSE rows

\* a number is truthy unless it is 0
Truthy(n) == n # 0

\* geo.results.find(r => r.latitude && r.longitude) || geo.results[0]
BestMatch(results) ==
  IF \E i \in DOMAIN results :
       Truthy(results[i].latitude) /\ Truthy(results[i].longitude)
  THEN LET first ==
             CHOOSE i \in DOMAIN results :
               /\ Truthy(results[i].latitude) /\ Truthy(results[i].longitude)
               /\ \A j \in 1..(i - 1) :
                    ~(Truthy(results[j].latitude)
                        /\ Truthy(results[j].longitude))
       IN  results[first]
  ELSE results[1]

\* the two requests
GeoRequest(city) ==
  [endpoint |-> "geocoding", name |-> encodeURIComponent(city)]

ForecastRequest(match) ==
  [endpoint |-> "forecast", latitude |-> match.latitude,
   longitude |-> match.longitude]

\* a geocoding response the handler goes on from: it has a result
GeoUsable(response) ==
  /\ response.shape = "json"
  /\ "results" \in DOMAIN response.body
  /\ Len(response.body.results) > 0

\* a forecast response with hourly data
HasHourly(response) ==
  /\ response.shape = "json"
  /\ "hourly" \in DOMAIN response.body

\* a forecast response the handler renders
ForecastUsable(response) ==
  /\ HasHourly(response)
  /\ "time" \in DOMAIN response.body.hourly

\* err.message of what the handler throws on a response it cannot use
GeoMessage(response) ==
  IF response.shape = "rejected" THEN response.message ELSE "City not found"

ForecastMessage(response) ==
  IF response.shape = "rejected"
  THEN response.message
  ELSE IF ~HasHourly(response)
       THEN "Weather data not available"
       ELSE "Cannot read properties of undefined"

\* a run of the handler at an await: the request it waits for, and geo,
\* the geocoding response it has got (none yet: << >>)
Run(request, geo) == [request |-> request, geo |-> geo]

\* the end of a run: its geocoding response, if it got one it could use,
\* and the response it ended on
End(run, response) == <<[geo |-> run.geo, request |-> run.request,
                         response |-> response]>>

outsideWeather ==
  <<portfolioVars, fetches, marketVars, cacheVars, engineVars, pageVars,
    newsVars, strategyVars>>

\* the user types into #city
WeatherCityInput ==
  /\ weatherCity' \in CityInputs \ {weatherCity}
  /\ UNCHANGED <<weatherStatus, weatherHidden, weatherPlace, weatherRows,
                 weatherCalls, weatherCounts, weatherEnded, outsideWeather>>

\* "click" on #search, up to the first await
WeatherSearchClick ==
  LET city == Trim(weatherCity)
  IN  IF city = << >>
      THEN /\ weatherStatus' = PleaseEnterText
           /\ UNCHANGED <<weatherCity, weatherHidden, weatherPlace,
                          weatherRows, weatherCalls, weatherCounts,
                          weatherEnded, outsideWeather>>
      ELSE /\ weatherCounts.geocoding < MaxEvents
           /\ weatherStatus' = LoadingWeatherText
           /\ weatherCounts' =
                [weatherCounts EXCEPT !.geocoding = @ + 1]
           /\ weatherCalls' =
                Append(weatherCalls, Run(GeoRequest(city), << >>))
           /\ UNCHANGED <<weatherCity, weatherHidden, weatherPlace,
                          weatherRows, weatherEnded, outsideWeather>>

\* the catch block of the handler, for the run at position i
WeatherCatch(i, message) ==
  /\ weatherStatus' = ErrorText(message)
  /\ weatherHidden' = TRUE
  /\ weatherCalls' = Splice(weatherCalls, i)

\* the handler goes on from the answer to its geocoding request
WeatherGeoResume ==
  \E i \in DOMAIN weatherCalls :
    \E response \in GeoReturns :
      LET run == weatherCalls[i]
      IN  /\ run.request.endpoint = "geocoding"
          /\ IF GeoUsable(response)
             THEN LET match == BestMatch(response.body.results)
                  IN  /\ weatherCounts' =
                           [weatherCounts EXCEPT !.forecast = @ + 1]
                      /\ weatherCalls' =
                           [weatherCalls EXCEPT
                              ![i] = Run(ForecastRequest(match),
                                         <<response>>)]
                      /\ UNCHANGED <<weatherStatus, weatherHidden,
                                     weatherEnded>>
             ELSE /\ weatherCounts' =
                       [weatherCounts EXCEPT !.ended = @ + 1]
                  /\ weatherEnded' = End(run, response)
                  /\ WeatherCatch(i, GeoMessage(response))
          /\ UNCHANGED <<weatherCity, weatherPlace, weatherRows,
                         outsideWeather>>

\* the handler goes on from the answer to its forecast request
WeatherForecastResume ==
  \E i \in DOMAIN weatherCalls :
    \E response \in ForecastReturns :
      LET run == weatherCalls[i]
          match == BestMatch(run.geo[1].body.results)
      IN  /\ run.request.endpoint = "forecast"
          /\ weatherCounts' = [weatherCounts EXCEPT !.ended = @ + 1]
          /\ weatherEnded' = End(run, response)
          /\ IF ForecastUsable(response)
             THEN /\ weatherPlace' = <<match.name, ", ", match.country>>
                  /\ weatherRows' = WeatherRows(response.body.hourly)
                  /\ weatherHidden' = FALSE
                  /\ weatherStatus' = NoStatusText
                  /\ weatherCalls' = Splice(weatherCalls, i)
             ELSE /\ weatherPlace' =
                       IF HasHourly(response)
                       THEN <<match.name, ", ", match.country>>
                       ELSE weatherPlace
                  /\ WeatherCatch(i, ForecastMessage(response))
                  /\ UNCHANGED weatherRows
          /\ UNCHANGED <<weatherCity, outsideWeather>>

\* the widget when its script has run: nothing is typed, nothing is shown
InitWeather ==
  /\ weatherCity = << >>
  /\ weatherStatus = NoStatusText
  /\ weatherHidden = TRUE
  /\ weatherPlace = << >>
  /\ weatherRows = << >>
  /\ weatherCalls = << >>
  /\ weatherCounts = [geocoding |-> 0, forecast |-> 0, ended |-> 0]
  /\ weatherEnded = << >>

(***************************************************************************)
(* The page after the DOMContentLoaded handler (src/app.js 1203-1270) has  *)
(* run: the selects are populated, the metrics are computed once, and the  *)
(* three requests of populateCryptoSelect, buildMarketStats and            *)
(* buildCryptoTicker are pending.                                          *)
(***************************************************************************)
\* the state of the checkboxes in the page's markup
InitialChecks == {[card \in ChartCards |-> b] : b \in BOOLEAN}

\* the two script files: src/app.js and its older variant
\* src/unnamed/part_000
Scripts == {"app.js", "part_000"}

\* the DOMContentLoaded handler of src/app.js calls buildNewsFeed(), which
\* only src/unnamed/part_000 defines: in src/app.js the call throws a
\* ReferenceError, which ends the handler before its two setInterval calls
InitScript(file) ==
  /\ script = file
  /\ uncaught = IF file = "app.js" THEN {"DOMContentLoaded"} ELSE {}

InitMarket ==
  /\ fetches =
       <<[caller |-> "populateCryptoSelect", endpoint |-> "coins/markets",
          calledAt |-> 0, request |-> 1, returned |-> FALSE,
          value |-> Pending],
         [caller |-> "buildMarketStats", endpoint |-> "simple/price",
          calledAt |-> 0, request |-> 1, returned |-> FALSE,
          value |-> Pending],
         [caller |-> "buildCryptoTicker", endpoint |-> "coins/markets",
          calledAt |-> 0, request |-> 2, returned |-> FALSE,
          value |-> Pending]>>
  /\ netRequests = [e \in Endpoints |-> IF e = "coins/markets" THEN 2 ELSE 1]
  /\ tickerEl = << >>
  /\ marketWidgets = [btcValue |-> "", btcChange |-> "", goldValue |-> "",
                      goldChange |-> "", sentiment |-> ""]
  /\ timers = [installed |-> script = "part_000",
               buildMarketStats |-> RefreshPeriod,
               buildCryptoTicker |-> RefreshPeriod]
  /\ now = 0

InitCharts ==
  /\ allocationChart = << >>
  /\ growthChart = << >>
  /\ monteCarloChart = << >>
  /\ simulationRun = FALSE
  /\ simStatus = ""
  /\ chartChecked \in InitialChecks
  /\ cardHidden = updateChartVisibilityFromChecks(FALSE, chartChecked)

InitPage ==
  /\ \E file \in Scripts : InitScript(file)
  /\ allocations = InitialAllocations
  /\ stockSelected = DefaultStocks
  /\ cryptoOptions = <<LoadingOption>>
  /\ cryptoSelected = {}
  /\ lastMetrics = Computed(allocations, stockSelected, cryptoOptions,
                            cryptoSelected)
  /\ metricsText \in MetricsTexts(lastMetrics.metrics)
  /\ InitCharts
  /\ events = 0
  /\ InitMarket

Init ==
  /\ InitPage
  /\ InitCache
  /\ InitEngine
  /\ InitNewsDeclared
  /\ InitStrategy
  /\ InitWeather

\* every input the Aggregator can be given: any slider positions and any
\* selection, after the crypto list has been loaded and a handler has
\* recomputed the metrics; one user event follows
InitAggregate ==
  /\ InitScript("app.js")
  /\ allocations \in [Assets -> SliderValues]
  /\ stockSelected \in SUBSET StockSymbols
  /\ cryptoOptions = CoinOptions
  /\ cryptoSelected \in SUBSET CoinIds
  /\ lastMetrics = Computed(allocations, stockSelected, cryptoOptions,
                            cryptoSelected)
  /\ metricsText \in MetricsTexts(lastMetrics.metrics)
  /\ InitCharts
  /\ \A card \in ChartCards : chartChecked[card]
  /\ events = MaxEvents - 1
  /\ InitMarket
  /\ InitCache
  /\ InitEngine
  /\ InitNewsDeclared
  /\ InitStrategy
  /\ InitWeather

NextPortfolio ==
  \/ SliderInput
  \/ StockSelectChange
  \/ CryptoSelectChange
  \/ RunSimClick
  \/ PopulateCryptoSelectResume

NextCharts ==
  \/ RunSimClick
  \/ CheckboxChange

NextAggregate ==
  \/ StockSelectChange
  \/ CryptoSelectChange
  \/ RunSimClick

NextMarket ==
  \/ PopulateCryptoSelectResume
  \/ BuildCryptoTickerResume
  \/ BuildMarketStatsResume
  \/ MarketStatsTick
  \/ CryptoTickerTick
  \/ TimePasses

NextCache ==
  \/ GetQuote
  \/ GetHistory
  \/ ClockAdvance

NextStatistics == ComputeStatistics

NextNews ==
  \/ NewsTabClick
  \/ NewsSearch
  \/ NewsScroll
  \/ NewsTimerTick
  \/ LoadNewsResume
  \/ SaveClick
  \/ BuildNewsFeedResume

NextStrategy == StrategySliderInput

NextWeather ==
  \/ WeatherCityInput
  \/ WeatherSearchClick
  \/ WeatherGeoResume
  \/ WeatherForecastResume

Next ==
  \/ NextPortfolio
  \/ NextCharts
  \/ NextMarket
  \/ NextCache
  \/ NextStatistics
  \/ NextNews
  \/ NextStrategy
  \/ NextWeather

\* the whole page
Spec == Init /\ [][Next]_vars

\* the portfolio section: user events and the arrival of the crypto list
\* (the checkboxes play no part in it)
InitPortfolio ==
  /\ Init
  /\ script = "app.js"
  /\ \A card \in ChartCards : chartChecked[card]

SpecPortfolio == InitPortfolio /\ [][NextPortfolio]_vars

\* the Aggregator and the Projector on every input
SpecAggregate == InitAggregate /\ [][NextAggregate]_vars

\* the market section: responses and refresh timers
InitMarketSection == Init /\ \A card \in ChartCards : chartChecked[card]

SpecMarket == InitMarketSection /\ [][NextMarket]_vars

\* the chart section: Run Simulation and the checkboxes
SpecCharts == Init /\ [][NextCharts]_vars

\* the Cache: calls of getQuote and getHistory as time advances
SpecCache == InitPortfolio /\ [][NextCache]_vars

\* the Statistics Engine on every price series
InitStatistics ==
  /\ InitPage
  /\ script = "app.js"
  /\ \A card \in ChartCards : chartChecked[card]
  /\ InitCache
  /\ closes \in PriceSeries
  /\ stats = NoStats
  /\ InitNewsDeclared
  /\ InitStrategy
  /\ InitWeather

SpecStatistics == InitStatistics /\ [][NextStatistics]_vars

\* the news section: after initNewsSection() in src/app.js, after
\* buildNewsFeed() in the older script
InitNews ==
  /\ InitPage
  /\ \A card \in ChartCards : chartChecked[card]
  /\ InitCache
  /\ InitEngine
  /\ IF script = "app.js" THEN InitNewsSection ELSE InitNewsDeclared
  /\ InitStrategy
  /\ InitWeather

SpecNews == InitNews /\ [][NextNews]_vars

\* the news section of src/app.js on a first visit: nothing is saved
InitSaved == InitNews /\ script = "app.js" /\ savedStorage = NoItem

\* the handlers of src/app.js's news section
NextSaved ==
  \/ NewsTabClick
  \/ NewsSearch
  \/ NewsScroll
  \/ NewsTimerTick
  \/ LoadNewsResume
  \/ SaveClick

SpecSaved == InitSaved /\ [][NextSaved]_vars

\* the loading of news in src/app.js when every request is answered:
\* fetchNewsPage returns once the response, or the failure, has arrived
InitNewsLoading == InitNews /\ script = "app.js" /\ savedStorage = NoItem

NextNewsLoading ==
  \/ NewsTabClick
  \/ NewsSearch
  \/ NewsScroll
  \/ NewsTimerTick
  \/ LoadNewsResume

SpecNewsLive ==
  InitNewsLoading /\ [][NextNewsLoading]_vars /\ WF_vars(LoadNewsResume)

\* the strategy builder on every position of its sliders
InitStrategyBuilder ==
  /\ InitPage
  /\ script = "app.js"
  /\ \A card \in ChartCards : chartChecked[card]
  /\ InitCache
  /\ InitEngine
  /\ InitNewsDeclared
  /\ strategySliders \in StrategyInputs
  /\ strategy = RecomputeStrategy(strategySliders)
  /\ InitWeather

SpecStrategy == InitStrategyBuilder /\ [][NextStrategy]_vars

\* the weather widget
InitWeatherWidget ==
  /\ Init
  /\ script = "app.js"
  /\ \A card \in ChartCards : chartChecked[card]

SpecWeather == InitWeatherWidget /\ [][NextWeather]_vars

(***************************************************************************)
(* Properties.                                                             *)
(***************************************************************************)
\* the metrics the last call of calculatePortfolioMetrics computed
Metrics == lastMetrics.metrics

\* the legs of an asset class among the legs of the last call
LegsOf(asset) == SelectSeq(Metrics.legs, LAMBDA leg : leg.asset = asset)

\* the weight w/100 of a class as a leg weight, in units of 1/(20*LegDen)
ClassWeight(asset) == (lastMetrics.alloc[asset] \div 5) * LegDen

\* the charts have been built
ChartsBuilt == growthChart # << >> /\ monteCarloChart # << >>

\* C1: with weights 40/20/30/10 and nothing selected, expectedReturn is
\* 11.35 (2270/200), variance is 100.26 (40104/400), volatility lies in
\* [10.01, 10.02), sharpe is (11.35 - 2.5) / volatility and rounds to 0.884,
\* and every leg reads the static tables.
C1_StaticTableMetrics ==
  (/\ lastMetrics.alloc = InitialAllocations
   /\ lastMetrics.stockSelected = {}
   /\ lastMetrics.cryptoSelected = {})
  => /\ Metrics.exp = 2270 * LegDen
     /\ Metrics.variance = 40104 * LegDen * LegDen
     /\ 1001 * 1001 * LegDen * LegDen <= 25 * Metrics.variance
     /\ 25 * Metrics.variance < 1002 * 1002 * LegDen * LegDen
     /\ Metrics.sharpe = [num |-> (2270 - 500) * LegDen, den2 |-> Metrics.variance]
     /\ SharpeToFixed(Metrics.sharpe, 3) = {<<FALSE, 884>>}
     /\ Len(Metrics.legs) = 4
     /\ \A i \in 1..4 :
          /\ Metrics.legs[i].ret = expectedReturns[AssetKeys[i]]
          /\ Metrics.legs[i].vol = volatilities[AssetKeys[i]]

\* C1 witness: the user has deselected every stock while the weights are the
\* initial ones and no coin is selected
C1_Witness ==
  /\ events > 0
  /\ lastMetrics.alloc = InitialAllocations
  /\ lastMetrics.stockSelected = {}
  /\ lastMetrics.cryptoSelected = {}
  /\ metricsText.volatility = 100

\* C2 (as claimed): volatility >= 0, and sharpe is 0 exactly when the
\* volatility is 0
C2_SharpeZeroIffVolZero ==
  /\ Metrics.variance >= 0
  /\ Metrics.sharpe.num = 0 <=> Metrics.variance = 0

\* C2 (amended): volatility >= 0; sharpe is 0 when the volatility is 0, and
\* when the volatility is positive sharpe is 0 exactly when expectedReturn
\* equals the risk-free rate 2.5
C2_SharpeZeroIffVolZeroOrRiskFree ==
  /\ Metrics.variance >= 0
  /\ Metrics.variance = 0 => Metrics.sharpe.num = 0
  /\ Metrics.variance > 0 =>
       (Metrics.sharpe.num = 0 <=> Metrics.exp = 500 * LegDen)
  /\ Metrics.sharpe.num = 0 => metricsText.sharpe = <<FALSE, 0>>

\* C2 witness: a portfolio with positive volatility whose expectedReturn is
\* 2.5, so that sharpe is 0
C2_Witness ==
  /\ events = MaxEvents
  /\ Metrics.variance > 0
  /\ Metrics.exp = 500 * LegDen
  /\ metricsText.sharpe = <<FALSE, 0>>
  /\ metricsText.volatility > 0

\* C3: a stocks or crypto class with n >= 1 selected instruments is n legs,
\* one per instrument, of weight w/n; with nothing selected a class is one
\* leg of weight w with the values of the static tables; every leg adds
\* weight * return to expectedReturn and (weight * volatility)^2 to the
\* variance, and the volatility shown is the square root of that sum
C3_EvenSplitLegs ==
  /\ \A a \in {"stocks", "crypto"} :
       LET sel == IF a = "stocks" THEN lastMetrics.stockSelected
                  ELSE lastMetrics.cryptoSelected
           n == Cardinality(sel)
           legs == LegsOf(a)
       IN IF n >= 1
          THEN /\ Len(legs) = n
               /\ {legs[i].instrument : i \in 1..n} = sel
               /\ \A i \in 1..n : legs[i].weight * n = ClassWeight(a)
          ELSE /\ Len(legs) = 1
               /\ legs[1].weight = ClassWeight(a)
               /\ legs[1].ret = expectedReturns[a]
               /\ legs[1].vol = volatilities[a]
  /\ Metrics.exp =
       SeqSum([i \in 1..Len(Metrics.legs) |->
                 Metrics.legs[i].weight * Metrics.legs[i].ret])
  /\ Metrics.variance =
       SeqSum([i \in 1..Len(Metrics.legs) |->
                 (Metrics.legs[i].weight * Metrics.legs[i].vol)
                 * (Metrics.legs[i].weight * Metrics.legs[i].vol)])
  /\ LET t == metricsText.volatility
     IN /\ t >= 0
        /\ t > 0 => (2 * t - 1) * (2 * t - 1) * LegDen * LegDen <= Metrics.variance
        /\ Metrics.variance <= (2 * t + 1) * (2 * t + 1) * LegDen * LegDen

\* C3 witness: two stocks share a positive stocks weight and no coin is
\* selected for a positive crypto weight
C3_Witness ==
  /\ events = MaxEvents
  /\ Cardinality(lastMetrics.stockSelected) = 2
  /\ lastMetrics.cryptoSelected = {}
  /\ lastMetrics.alloc["stocks"] > 0
  /\ lastMetrics.alloc["crypto"] > 0
  /\ Len(LegsOf("stocks")) = 2
  /\ Len(LegsOf("crypto")) = 1

\* C4 (as claimed): the leg of a selected stock takes its return and its
\* volatility from the statistics of that stock's history, the leg of a
\* selected coin from the static tables; so two selected stocks contribute
\* different returns and volatilities
C4_StocksUseHistoryStats ==
  /\ \A i \in 1..Len(Metrics.legs) :
       LET leg == Metrics.legs[i]
       IN /\ (leg.asset = "stocks" /\ leg.instrument \in StockSymbols) =>
               <<leg.ret, leg.vol>> = HistoryStats(leg.instrument)
          /\ (leg.asset = "crypto") =>
               /\ leg.ret = expectedReturns["crypto"]
               /\ leg.vol = volatilities["crypto"]
  /\ \A i, j \in 1..Len(Metrics.legs) :
       (/\ i # j
        /\ Metrics.legs[i].asset = "stocks"
        /\ Metrics.legs[j].asset = "stocks"
        /\ Metrics.legs[i].instrument \in StockSymbols
        /\ Metrics.legs[j].instrument \in StockSymbols)
       => <<Metrics.legs[i].ret, Metrics.legs[i].vol>>
            # <<Metrics.legs[j].ret, Metrics.legs[j].vol>>

\* C5 (as claimed): the texts shown are those of the aggregate of the
\* current weights and the currently selected instruments
C5_DisplayedMetricsCurrent ==
  metricsText \in MetricsTexts(MetricsOf(allocations, stockSelected,
                                         cryptoOptions, cryptoSelected))

\* C6 (as claimed): the growth series is 10000 * (1 + r)^y for y = 0..10
\* with r = expectedReturn / 100 of the Aggregator, and its last point is
\* the hero figure
C6_GrowthSeriesFromAggregate ==
  ChartsBuilt =>
    /\ Len(growthChart) = 11
    /\ \A y \in 0..10 :
         growthChart[y + 1] = PowValue(10000, FactorDen + Metrics.exp, y)
    /\ growthChart[11] = metricsText.hero

\* C7 (as claimed): 30 paths of 11 points, each from 10000, each step
\* value *= 1 + r + sigma * u, r and sigma the Aggregator's expectedReturn
\* and volatility as fractions and u in [-1, 1).  sigma * u is
\* 5 * sqrt(variance) * (draw - 2) in units of 1/FactorDen, for a draw in
\* quarters.
C7_ShockIsSigmaTimesUniform ==
  ChartsBuilt =>
    /\ Len(monteCarloChart) = 30
    /\ \A p \in 1..30 :
         /\ Len(monteCarloChart[p]) = 10
         /\ \A t \in 1..10 :
              \E draw \in 0..3 :
                LET shock == monteCarloChart[p][t] - FactorDen - Metrics.exp
                    s == Isqrt(Metrics.variance)
                IN \/ draw = 2 /\ shock = 0
                   \/ s * s = Metrics.variance /\ shock = 5 * s * (draw - 2)

\* C7 (amended): 30 paths of 11 points, each from 10000, each step
\* value *= 1 + r + shock with r the expected-return text / 100 and
\* shock = 0.6 * sigma * u, sigma the volatility text / 100, u in [-1, 1)
C7_ShockIsDampedSigmaTimesUniform ==
  ChartsBuilt =>
    /\ Len(monteCarloChart) = 30
    /\ \A p \in 1..30 :
         /\ Len(monteCarloChart[p]) = 10
         /\ PathPoint(monteCarloChart[p], 0) = [initial |-> 10000, factors |-> << >>]
         /\ \A t \in 1..10 :
              /\ PathPoint(monteCarloChart[p], t) =
                   TimesValue(PathPoint(monteCarloChart[p], t - 1),
                              monteCarloChart[p][t])
              /\ \E draw \in 0..3 :
                   monteCarloChart[p][t] =
                     20 * LegDen * (1000 + metricsText.expected)
                     + 6 * LegDen * metricsText.volatility * (draw - 2)

\* C7 witness: the chart is built for a portfolio with positive volatility
\* and some path has a step above and a step below 1 + r
C7_Witness ==
  /\ ChartsBuilt
  /\ metricsText.volatility > 0
  /\ \E p \in 1..30 : \E t, u \in 1..10 :
       /\ monteCarloChart[p][t] > ExpFactor(metricsText.expected)
       /\ monteCarloChart[p][u] < ExpFactor(metricsText.expected)

\* C8: when the volatility is 0, the 30 paths are equal to each other and,
\* year by year, to the growth series
C8_ZeroVolatilityPathsAreGrowthSeries ==
  (ChartsBuilt /\ Metrics.variance = 0) =>
    \A p \in 1..30 :
      /\ monteCarloChart[p] = monteCarloChart[1]
      /\ \A y \in 0..10 : PathPoint(monteCarloChart[p], y) = growthChart[y + 1]

\* C8 witness: the charts are built while every weight is 0
C8_Witness ==
  /\ ChartsBuilt
  /\ Metrics.variance = 0
  /\ metricsText.volatility = 0
  /\ \A a \in Assets : allocations[a] = 0

\* what a class adds to expectedReturn and to the variance in the last call
ClassContribution(m, asset) ==
  LET legs == SelectSeq(m.legs, LAMBDA leg : leg.asset = asset)
  IN <<SeqSum([i \in 1..Len(legs) |-> legs[i].weight * legs[i].ret]),
       SeqSum([i \in 1..Len(legs) |->
                 (legs[i].weight * legs[i].vol) * (legs[i].weight * legs[i].vol)])>>

\* C9: a step that changes the selected instruments and not the weights
\* leaves what reits and bonds add to expectedReturn and to the variance
\* unchanged, and it is w * return and (w * volatility)^2 of the static
\* tables
C9_ReitsBondsStatic ==
  [][(lastMetrics'.alloc = lastMetrics.alloc) =>
       \A a \in {"reits", "bonds"} :
         /\ ClassContribution(lastMetrics'.metrics, a)
              = ClassContribution(lastMetrics.metrics, a)
         /\ ClassContribution(lastMetrics'.metrics, a) =
              LET w == (lastMetrics'.alloc[a] \div 5) * LegDen
              IN <<w * expectedReturns[a],
                   (w * volatilities[a]) * (w * volatilities[a])>>]_vars

\* C9 witness: the selection has been changed, to two stocks and a coin,
\* while reits and bonds have positive weights
C9_Witness ==
  /\ events = MaxEvents
  /\ ~simulationRun
  /\ Cardinality(lastMetrics.stockSelected) = 2
  /\ lastMetrics.cryptoSelected # {}
  /\ lastMetrics.alloc["reits"] > 0
  /\ lastMetrics.alloc["bonds"] > 0

\* C10 (as claimed): of two calls for the same endpoint, the second made
\* within the TTL of the first, the second issues no request of its own, so
\* that one request serves both, and it returns the value the first returned
C10_CacheRoundTrip ==
  \A i, j \in DOMAIN fetches :
    (/\ i < j
     /\ fetches[i].endpoint = fetches[j].endpoint
     /\ fetches[j].calledAt - fetches[i].calledAt < TTL)
    => /\ fetches[j].request = fetches[i].request
       /\ (fetches[i].returned /\ fetches[j].returned)
            => fetches[j].value = fetches[i].value

\* the call a step of getQuote / getHistory has added to the log
LastCall == cacheCalls[Len(cacheCalls)]

\* C11: a call is served from the Cache exactly while now - timestamp < 60
\* for a quote and < 600 for history statistics; the call after that
\* boundary issues exactly one request; a served call issues none; and the
\* passing of time alone changes neither the Cache nor the requests issued
C11_CacheExpiry ==
  [][/\ (Len(cacheCalls') = Len(cacheCalls) + 1) =>
          LET c == cacheCalls'[Len(cacheCalls')]
              key == <<c.call.kind, c.call.symbol>>
              limit == IF c.call.kind = "quote" THEN 60 ELSE 600
              others == CacheKeys \ {key}
          IN /\ c.call.at = now
             /\ c.hit <=> (/\ cache[key] # NoEntry
                           /\ now - cache[key].timestamp < limit)
             /\ c.hit => /\ c.value = cache[key].value
                         /\ cacheRequests'[key] = cacheRequests[key]
                         /\ cache' = cache
             /\ ~c.hit => cacheRequests'[key] = cacheRequests[key] + 1
             /\ \A k \in others : cacheRequests'[k] = cacheRequests[k]
     /\ (now' # now) => (cache' = cache /\ cacheRequests' = cacheRequests)
    ]_vars

\* C11 witness: a quote fetched at time 0 is asked for again 60 seconds
\* later and fetched again, once
C11_Witness ==
  /\ Len(cacheCalls) = 2
  /\ cacheCalls[1].call.kind = "quote"
  /\ cacheCalls[2].call = [cacheCalls[1].call EXCEPT !.at = 60]
  /\ cacheCalls[1].call.at = 0
  /\ ~cacheCalls[1].failed
  /\ ~cacheCalls[2].hit
  /\ cacheRequests[<<"quote", cacheCalls[1].call.symbol>>] = 2

\* C12: a getHistory call whose request failed returns the fallback
\* {annualVolatility: 0.20, annualReturn: 0.08}, a getQuote call whose
\* request failed returns "unavailable", and a failed request stores nothing
C12_HistoryFallback ==
  \A i \in 1..Len(cacheCalls) :
    cacheCalls[i].failed =>
      /\ ~cacheCalls[i].hit
      /\ cacheCalls[i].call.kind = "history" =>
           cacheCalls[i].value =
             [shape |-> "fallback", annualVolatility |-> 20, annualReturn |-> 8]
      /\ cacheCalls[i].call.kind = "quote" =>
           cacheCalls[i].value = [shape |-> "unavailable"]
      /\ \A key \in CacheKeys :
           cache[key] # NoEntry => cache[key].value.shape \in {"quote", "stats"}

\* C12 witness: a getHistory call and a getQuote call have both failed
C12_Witness ==
  /\ Len(cacheCalls) = 2
  /\ cacheCalls[1].failed
  /\ cacheCalls[2].failed
  /\ cacheCalls[1].call.kind = "history"
  /\ cacheCalls[2].call.kind = "quote"
  /\ cacheCalls[1].value.shape = "fallback"

\* the sum of the squares of a sequence of numbers
SumOfSquares(r) == SeqSum([i \in 1..Len(r) |-> r[i] * r[i]])

\* C13: for a series of n >= 2 closes the engine returns the mean of the
\* n - 1 daily log returns, dailyVolatility whose square is their variance
\* with the denominator n - 1, (sum r^2 - (sum r)^2 / (n-1)) / (n-1), and
\* annualVolatility whose square is 252 times that of dailyVolatility
C13_SampleVarianceAnnualised ==
  stats # NoStats =>
    LET n == Len(closes)
        r == [i \in 1..(n - 1) |-> closes[i + 1] - closes[i]]
        S == closes[n] - closes[1]
        dv == stats.dailyVolatility.sqrtOf
        av == stats.annualVolatility.sqrtOf
    IN /\ n >= 2
       /\ stats.meanDailyLogReturn.num * (n - 1) = S * stats.meanDailyLogReturn.den
       /\ dv.den > 0 /\ dv.num >= 0
       /\ dv.num * ((n - 1) * (n - 1)) = ((n - 1) * SumOfSquares(r) - S * S) * dv.den
       /\ av.den > 0
       /\ av.num * dv.den = 252 * dv.num * av.den

\* C13 witness: the statistics of a series of three closes whose two log
\* returns differ
C13_Witness ==
  /\ stats # NoStats
  /\ Len(closes) = 3
  /\ closes[2] - closes[1] # closes[3] - closes[2]
  /\ stats.dailyVolatility.sqrtOf.num > 0

\* the functions that make an external call (the handlers and refresh
\* functions of the market section, the news section and the weather search)
ExternalCallers ==
  {"buildMarketStats", "buildCryptoTicker", "populateCryptoSelect",
   "buildNewsFeed", "loadNews", "weatherSearch"}

\* C14 (as claimed): no exception or rejected promise escapes a handler or
\* refresh function that makes an external call, whatever the request
\* returns
C14_NoFailureEscapes == uncaught \cap ExternalCallers = {}

\* the response a step of buildMarketStats has resumed with, as a set
ResumedWith(caller) ==
  {fetches'[i].value : i \in {j \in DOMAIN fetches :
     /\ fetches[j].caller = caller
     /\ ~fetches[j].returned
     /\ fetches'[j].returned}}

HasEntry(data, id) == \E j \in 1..Len(data.items) : data.items[j].id = id

C17_RepeatingRefreshTimers ==
  /\ timers.installed
  /\ \A f \in {"buildMarketStats", "buildCryptoTicker"} :
       /\ timers[f] > 0
       /\ timers[f] % 60 = 0
       /\ \A t \in 1..MaxTime :
            (t % 60 = 0 /\ t < timers[f]) =>
              \E i \in DOMAIN fetches :
                fetches[i].caller = f /\ fetches[i].calledAt = t

\* C18 (as claimed): no two requests whose completions write the same
\* shared state (two calls of the same function for the same endpoint) are
\* in flight together
C18_NoTwoInFlightWriters ==
  \A i, j \in DOMAIN fetches :
    (/\ i # j
     /\ fetches[i].caller = fetches[j].caller
     /\ fetches[i].endpoint = fetches[j].endpoint)
    => (fetches[i].returned \/ fetches[j].returned)

\* the articles of the cards of the feed, in order
FeedArticles == [i \in DOMAIN newsFeed.cards |-> newsFeed.cards[i].article]

\* C16: when the request for news has failed or has returned no article,
\* the feed shows the hardcoded sample articles
C16_FallbackToSamples ==
  (/\ newsRequest.caller # ""
   /\ newsRequest.returned
   /\ IsEmpty(newsRequest.value))
  => FeedArticles = SampleArticles

\* the entries of a saved array that do not bear url, in their order
EntriesWithout(saved, url) ==
  SelectSeq(saved, LAMBDA entry : Field(entry, "url") # url)

\* C19: the saved articles are one array under one key of localStorage;
\* a click on the star of an article rewrites it as a whole: when no saved
\* entry has the article's url, one entry {title, url, source, publishedAt}
\* of the article is appended, otherwise the entry with that url is
\* removed; the other entries stay as they are, in the same order
C19_ToggleSavedFrame ==
  [][savedStorage' # savedStorage =>
       \E i \in DOMAIN newsFeed.cards :
         LET a == newsFeed.cards[i].article
             old == savedStorage.items
             new == savedStorage'.items
         IN  /\ newsFeed'.cards[i].saved # newsFeed.cards[i].saved
             /\ savedStorage'.shape = "json"
             /\ IF EntriesWithout(old, a.url) = old
                THEN /\ Len(new) = Len(old) + 1
                     /\ SubSeq(new, 1, Len(old)) = old
                     /\ DOMAIN new[Len(new)]
                          \subseteq {"title", "url", "source", "publishedAt"}
                     /\ Field(new[Len(new)], "url") = a.url
                     /\ Field(new[Len(new)], "title") = a.title
                     /\ Field(new[Len(new)], "publishedAt") = a.publishedAt
                     /\ Field(new[Len(new)], "source") =
                          IF a.source = Undefined
                          THEN EmptyString
                          ELSE a.source
                ELSE /\ Len(new) = Len(old) - 1
                     /\ new = EntriesWithout(old, a.url)]_vars

\* the star of the card of an article of the feed is lit
Lit(article) ==
  \E i \in DOMAIN newsFeed.cards :
    newsFeed.cards[i].article = article /\ newsFeed.cards[i].saved

\* the first of two saved entries has been removed by a click on its star:
\* the entry of article 1 is what is left
C19_Witness ==
  /\ savedStorage = Stringify(<<SavedEntry(Article(1))>>)
  /\ FeedArticles = ShortPage
  /\ Lit(Article(1))
  /\ Lit(Reprint)
  /\ ~Lit(Bare)

\* C20: the request for news is built from newsState: a search query that
\* is not blank overrides the category and goes to the search path with
\* the query; without a query the category "top" goes to the top-headlines
\* path and every other category to the search path with the category's
\* fixed query; every request carries the page number and the page size
C20_RequestFromNewsState ==
  newsRequest.caller = "loadNews" =>
    LET state == newsRequest.state
        url == newsRequest.url
        blank == \A i \in DOMAIN state.query : state.query[i] = " "
    IN  /\ url.page = state.page
        /\ url.pageSize = NewsPageSize
        /\ \A i \in DOMAIN url.q : url.q[i] \notin {" ", "\""}
        /\ ~blank =>
             /\ url.base = "everything"
             /\ url.q = encodeURIComponent(Trim(state.query))
        /\ (blank /\ state.category = "top") =>
             /\ url.base = "top-headlines"
             /\ url.category = "business"
        /\ (blank /\ state.category # "top") =>
             /\ url.base = "everything"
             /\ url.q = encodeURIComponent(CategoryQuery(state.category))

\* a search on the crypto tab: the request of page 1 goes to the search
\* path with the text that was typed, not with the query of the tab
C20_Witness ==
  /\ newsRequest.caller = "loadNews"
  /\ newsRequest.state.category = "crypto"
  /\ newsRequest.state.query = <<"a", " ", "\"">>
  /\ newsRequest.url.base = "everything"
  /\ newsRequest.url.q = <<"a", "%20", "%22">>
  /\ newsRequest.url.page = 1

\* a request of loadNews is in flight
NewsPending == newsRequest.caller = "loadNews" /\ ~newsRequest.returned

\* the last request of loadNews has returned articles, which loadNews has
\* rendered
NewsRendered ==
  /\ newsRequest.caller = "loadNews"
  /\ newsRequest.returned
  /\ newsRequest.value.shape = "array"
  /\ newsRequest.value.items # << >>

\* C21: the articles loadNews has rendered were fetched for the category,
\* the query and the page newsState holds: a tab click, a search or a
\* timer reset during a request is not lost, and no response is rendered
\* under another category, query or page than it was requested for
C21_RenderedForCurrentState ==
  NewsRendered =>
    /\ newsRequest.state.category = newsState.category
    /\ newsRequest.state.query = newsState.query
    /\ newsRequest.state.page = newsState.page

NewsEnded ==
  /\ newsRequest.caller = "loadNews"
  /\ newsRequest.returned
  /\ newsRequest.value.shape = "array"
  /\ Len(newsRequest.value.items) < NewsPageSize

\* C23: no load of a news page is retried by itself: once a request has
\* failed or has returned an empty or a short batch, reachedEnd is true,
\* and from then on the page number does not grow and the only requests
\* are those of a reset (tab click, search, timer tick), for page 1
C23_NoRetryAfterEnd ==
  [][/\ NewsEnded' => newsState'.reachedEnd
     /\ newsState.reachedEnd =>
          /\ newsState'.page <= newsState.page
          /\ newsRequest' # newsRequest =>
               /\ newsRequest'.reset
               /\ newsRequest'.state.page = 1
               /\ ~newsState'.reachedEnd]_vars

\* page 2 was requested by a scroll and came back empty: reachedEnd is
\* true with the page still 2
C23_Witness ==
  /\ NewsEnded
  /\ newsRequest.value.items = << >>
  /\ ~newsRequest.reset
  /\ newsState.page = 2
  /\ newsState.reachedEnd

\* the calls of buildCryptoTicker so far
TickerCalls == {i \in DOMAIN fetches : fetches[i].caller = "buildCryptoTicker"}

\* C24: when every refresh of the crypto ticker has completed, the ticker
\* holds the items of a fetched coin list exactly twice (the row, then its
\* copy), also when a refresh was started before the one before it had
\* returned
C24_TickerTwoCopies ==
  (/\ \A i \in TickerCalls : fetches[i].returned
   /\ \E i \in TickerCalls : fetches[i].value.shape = "array")
  => \E i \in TickerCalls :
       \/ /\ fetches[i].value.shape = "array"
          /\ tickerEl = fetches[i].value.items \o fetches[i].value.items
       \/ /\ fetches[i].value.shape # "array"
          /\ tickerEl = <<"Unable to load live ticker.">>

\* C25: whenever the status line reads "Simulation up to date - charts
\* refreshed.", the charts show data computed from the current allocation
\* weights and the current selection of instruments
C25_StatusMeansChartsCurrent ==
  simStatus = "Simulation up to date - charts refreshed." =>
    LET current == Computed(allocations, stockSelected, cryptoOptions,
                            cryptoSelected)
    IN  /\ allocationChart = [i \in 1..Len(AssetKeys) |-> allocations[AssetKeys[i]]]
        /\ \E texts \in MetricsTexts(current.metrics) :
             /\ growthChart = GrowthSeries(texts.expected)
             /\ \E seed \in 0..(NumSeeds - 1) :
                  monteCarloChart =
                    McPaths(seed, texts.expected, texts.volatility)

\* C26: after any clicks on the stars of the cards of the feed, the star
\* of every card is lit exactly when the url of the card's article is
\* among the saved articles, also when an article is in several cards
C26_StarsShowSaved ==
  newsInit =>
    \A i \in DOMAIN newsFeed.cards :
      newsFeed.cards[i].saved
        <=> isSaved(savedStorage, newsFeed.cards[i].article.url)

\* C27: after any sequence of calls of toggleSaved from an empty list, the
\* saved array holds no url twice, and isSaved(url) is true exactly for the
\* urls toggleSaved was called with an odd number of times
C27_SavedIsOddToggles ==
  LET saved == getSavedArticles(savedStorage)
  IN  /\ \A i, j \in DOMAIN saved :
           Field(saved[i], "url") = Field(saved[j], "url") => i = j
      /\ \A url \in {Str("url", n) : n \in 1..NewsPageSize} :
           isSaved(savedStorage, url) <=> url \in toggledOdd

\* article 1 was saved through its star and removed again through the
\* star of the other article with its url: the url was toggled twice and
\* is not saved
C27_Witness ==
  /\ toggledOdd = {}
  /\ savedStorage = Stringify(<< >>)
  /\ Lit(Article(1))
  /\ Lit(Reprint)
  /\ events = 2

\* Run Simulation has been clicked: only its handler writes the status line
RunSimClicked == simStatus # ""

\* a chart card is visible exactly when Run Simulation has been clicked and
\* the card's checkbox is checked
CardsFollowRunAndChecks ==
  \A card \in ChartCards :
    ~cardHidden[card] <=> (RunSimClicked /\ chartChecked[card])

\* C28: after every handler, a chart card is visible exactly when Run
\* Simulation has been clicked at least once and the card's checkbox is
\* checked; before the first click all six cards are hidden whatever the
\* checkboxes; simulationRun never returns to false
C28_CardVisibility ==
  [][/\ CardsFollowRunAndChecks
     /\ CardsFollowRunAndChecks'
     /\ simulationRun' <=> RunSimClicked'
     /\ ~RunSimClicked' => \A card \in ChartCards : cardHidden'[card]
     /\ simulationRun => simulationRun']_vars

\* after a click on Run Simulation one checkbox was cleared: its card is
\* hidden and the five others are visible
C28_Witness ==
  /\ simulationRun
  /\ ~chartChecked["growth"]
  /\ cardHidden["growth"]
  /\ \A card \in ChartCards \ {"growth"} :
       chartChecked[card] /\ ~cardHidden[card]

\* C29: for every horizon, risk score, lump sum and monthly contribution,
\* the closed-form final balance initial*(1+r)^n + monthly*((1+r)^n - 1)/r
\* (r = (6 + risk)/1200, n = 12*years) is the last point of the series the
\* chart shows, computed month by month, and the gain is that balance
\* minus initial + monthly*n
C29_ClosedFormIsLastPoint ==
  LET n == 12 * strategySliders.years
  IN  /\ strategy.r = [num |-> 6 + strategySliders.risk, den |-> 1200]
      /\ Len(strategy.values) = strategySliders.years + 1
      /\ strategy.future = strategy.values[Len(strategy.values)]
      /\ strategy.future.overR = 0
      /\ Plus(strategy.gain,
              Number(strategySliders.initial + strategySliders.monthly * n))
           = strategy.future

\* two years of monthly contributions on a lump sum: the balance is
\* 1000 q^24 + 100 (q^23 + ... + 1)
C29_Witness ==
  /\ strategySliders.years = 2
  /\ strategySliders.initial = 1000
  /\ strategySliders.monthly = 100
  /\ Len(strategy.future.poly) = 25
  /\ strategy.future.poly[25] = 1000
  /\ \A k \in 1..24 : strategy.future.poly[k] = 100
  /\ strategy.future = strategy.values[3]

\* the runs of the handler that end in this step
EndsNow == weatherCounts'.ended - weatherCounts.ended

\* every geocoding request a run waits for names a city that is not empty
NoRequestForEmptyCity ==
  \A i \in DOMAIN weatherCalls :
    weatherCalls[i].request.endpoint = "geocoding"
      => weatherCalls[i].request.name # << >> /\ weatherCalls[i].geo = << >>

\* every run that waits for a forecast has got a geocoding answer with a
\* result and asks for the coordinates of one of its results; no more
\* forecasts than geocodings have been requested
ForecastFollowsGeocode ==
  /\ weatherCounts.forecast <= weatherCounts.geocoding
  /\ \A i \in DOMAIN weatherCalls :
       weatherCalls[i].request.endpoint = "forecast"
         => /\ weatherCalls[i].geo # << >>
            /\ GeoUsable(weatherCalls[i].geo[1])
            /\ \E k \in DOMAIN weatherCalls[i].geo[1].body.results :
                 weatherCalls[i].request =
                   ForecastRequest(weatherCalls[i].geo[1].body.results[k])

\* the panel is shown only when the run that ended last got a geocoding
\* answer and a forecast it could use, and then every score in it is in
\* 0..100
ShownAfterUsable ==
  ~weatherHidden
    => /\ weatherEnded # << >>
       /\ weatherEnded[1].geo # << >>
       /\ GeoUsable(weatherEnded[1].geo[1])
       /\ weatherEnded[1].request.endpoint = "forecast"
       /\ ForecastUsable(weatherEnded[1].response)
       /\ weatherRows = WeatherRows(weatherEnded[1].response.body.hourly)
       /\ \A i \in DOMAIN weatherRows : weatherRows[i].score \in 0..100

\* a forecast is requested only in the step that gives a run its geocoding
\* answer; a step that gives a run an answer it cannot use hides the panel
\* and writes "Error: " and the message; the step that asks for a city
\* name is a click on an empty city and requests nothing
WeatherSteps ==
  /\ weatherCounts'.forecast # weatherCounts.forecast
       => /\ weatherCounts'.forecast = weatherCounts.forecast + 1
          /\ \E i \in DOMAIN weatherCalls :
               /\ weatherCalls[i].request.endpoint = "geocoding"
               /\ i \in DOMAIN weatherCalls'
               /\ weatherCalls'[i].request.endpoint = "forecast"
               /\ GeoUsable(weatherCalls'[i].geo[1])
  /\ EndsNow # 0 /\ weatherEnded'[1].request.endpoint = "geocoding"
       => /\ weatherHidden'
          /\ weatherStatus' = ErrorText(GeoMessage(weatherEnded'[1].response))
  /\ EndsNow # 0
       /\ weatherEnded'[1].request.endpoint = "forecast"
       /\ ~ForecastUsable(weatherEnded'[1].response)
       => /\ weatherHidden'
          /\ weatherStatus' =
               ErrorText(ForecastMessage(weatherEnded'[1].response))
  /\ weatherStatus # PleaseEnterText /\ weatherStatus' = PleaseEnterText
       => /\ Trim(weatherCity) = << >>
          /\ weatherCounts' = weatherCounts
          /\ weatherCalls' = weatherCalls

====
